---- MODULE Spec2Model ----
(***************************************************************************)
(* Model of the Chrome installer entry point                               *)
(* (chrome/installer/setup/setup_main.cc): wWinMain, the non-install       *)
(* command line options, InstallChrome with its preflight, unpack,         *)
(* version-compare, mutate and cleanup steps, UninstallChrome and the      *)
(* RenameChromeExecutables transaction.                                    *)
(*                                                                         *)
(* Every call the installer makes to a collaborator is appended to the     *)
(* log "calls"; what a collaborator answers (an OS call failing, the       *)
(* content of the payload, a locked file) is drawn with \E at the step     *)
(* that asks for it.                                                       *)
(***************************************************************************)
EXTENDS Integers, Sequences, FiniteSets, TLC

(***************************************************************************)
(* Bounds of the model.                                                    *)
(***************************************************************************)
\* largest number of components of a version
MaxVerLen == 2
\* largest number of switches on one command line
MaxSwitches == 2
\* largest number of WillOnce actions of the demuxer mock in one test
MaxBuffers == 1
\* largest number of decoder reads in one test
MaxReads == 2
\* largest number of decoder resets in one test
MaxResets == 1

(***************************************************************************)
(* Program constants.                                                      *)
(***************************************************************************)
\* Win32 NO_ERROR, the success code of LzmaUtil::UnPackArchive
NO_ERROR == 0
\* installer_util::CHROME_NOT_INSTALLED as a number (a non-zero enumerator)
CHROME_NOT_INSTALLED_CODE == 15

\* codes LzmaUtil::UnPackArchive and setup_util::ApplyDiffPatch may answer.
\* They are int32; UnPackArchive returns them as DWORD, which keeps the 32
\* bits, so a code is written here as the int32 with those bits.
ErrCodes == {0, 5, -1}

None == <<>>
NoStatus == "NONE"

(***************************************************************************)
(* installer::Version: a tuple of non-negative integers, compared          *)
(* lexicographically with the shorter tuple zero-padded on the right.      *)
(***************************************************************************)
\* the values of a component: enough for every order of two components
VerDigits == {0, 1}

Versions == UNION {[1..n -> VerDigits] : n \in 1..MaxVerLen}

\* the versions of one component
ShortVersions == {v \in Versions : Len(v) = 1}

\* a version that ends early counted as lower than any component
Component_shortIsLower(v, i) == IF i <= Len(v) THEN v[i] ELSE 0 - 1

Component(v, i) == IF i <= Len(v) THEN v[i] ELSE 0

MaxOf(a, b) == IF a >= b THEN a ELSE b

RECURSIVE CompareFrom(_, _, _)
CompareFrom(a, b, i) ==
  IF i > MaxOf(Len(a), Len(b)) THEN "equal"
  ELSE IF Component(a, i) > Component(b, i) THEN "greater"
  ELSE IF Component(a, i) < Component(b, i) THEN "less"
  ELSE CompareFrom(a, b, i + 1)

Compare(a, b) == CompareFrom(a, b, 1)

IsHigherThan(a, b) == Compare(a, b) = "greater"

(***************************************************************************)
(* Command line switches.                                                  *)
(***************************************************************************)
NonInstallSwitches ==
  {"update-setup-exe", "show-eula", "register-chrome-browser",
   "rename-chrome-exe", "remove-chrome-registration",
   "inactive-user-toast", "system-level-toast"}

Switches ==
  NonInstallSwitches \cup
  {"uninstall", "force-uninstall", "make-chrome-default", "run-as-admin",
   "installer-data"}

CommandLines == {s \in SUBSET Switches : Cardinality(s) <= MaxSwitches}

\* the switches InstallChrome itself reads (lines 357, 371)
InstallSwitches == {"installer-data"}

\* the command line reaches InstallChrome
IsInstallCmd(c) == c \cap (NonInstallSwitches \cup {"uninstall"}) = {}

VARIABLES
  pc,                  \* position of the process in wWinMain and its callees
  cmd,                 \* the switches of the command line
  system_install,      \* the system-level preference
  reg_version,         \* the version the registry holds for this scope
  payload_version,     \* the version directory inside the archive's payload
  installed_version,   \* InstallUtil::GetChromeVersion(system_install)
  installDir,          \* the directory at the install path
  installDir0,         \* the same directory when the process started
  installDirAtUnpack,  \* the same directory when the Unpack step started
  temp_path,           \* the temp directory of the run
  incremental_install, \* InstallChrome's incremental_install flag
  unpack_ret,          \* what UnPackArchive returned to InstallChrome
  installer_version,   \* the version found in the unpacked payload
  install_status,      \* InstallChrome's install_status local
  ic_ret,              \* the status InstallChrome returned
  main_status,         \* wWinMain's install_status local
  exit_code,           \* what wWinMain returned
  calls,               \* log of the calls made to collaborators
  files,               \* chrome.exe, new_chrome.exe, chrome_old.exe
  reg,                 \* the opv and cmd registry values
  files0,              \* the files when the process started
  reg0,                \* the registry values when the process started
  wl,                  \* the WorkItemList of RenameChromeExecutables
  ver_a,               \* three versions handed to the comparison
  ver_b,
  ver_c,
  ver_out,             \* what the comparisons of the three answered
  state_,              \* FFmpegVideoDecoder's decoding state
  read_cb_,            \* the decoder holds an unanswered read callback
  reset_cb_,           \* the decoder holds a reset closure not yet run
  codec,               \* what the codec has taken in and not yet given out
  codec_delay,         \* how many frames the codec's threads hold back
  key,                 \* the key the test gave the decryptor
  demuxer_once,        \* the demuxer mock's WillOnce actions still to come
  demuxer_rest,        \* the demuxer mock's WillRepeatedly buffer
  saved_cb,            \* the test holds the demuxer's read callback
  message_loop_        \* the tasks posted to the message loop

vars == <<pc, cmd, system_install, reg_version, payload_version,
          installed_version, installDir, installDir0,
          installDirAtUnpack, temp_path, incremental_install, unpack_ret,
          installer_version, install_status, ic_ret, main_status,
          exit_code, calls, files, reg, files0, reg0, wl,
          ver_a, ver_b, ver_c, ver_out, state_, read_cb_, reset_cb_, codec,
          codec_delay, key, demuxer_once, demuxer_rest, saved_cb,
          message_loop_>>

icVars == <<installDir, installDirAtUnpack, temp_path, incremental_install,
            unpack_ret, installer_version, install_status, ic_ret>>

rnVars == <<files, reg, wl>>

\* the version comparison on its own
verVars == <<ver_a, ver_b, ver_c, ver_out>>

\* the video decoder, its demuxer mock and its test fixture
decoderVars == <<state_, read_cb_, reset_cb_, codec, codec_delay, key,
                 demuxer_once, demuxer_rest, saved_cb, message_loop_>>

world == <<cmd, system_install, reg_version, payload_version, installDir0,
           files0, reg0, verVars, decoderVars>>

mainFrame == <<world, main_status>>

(***************************************************************************)
(* The call log.                                                           *)
(***************************************************************************)
Call(op, status, code, flag, arg) ==
  [op |-> op, status |-> status, code |-> code, flag |-> flag, arg |-> arg,
   launch |-> "NULL", path |-> <<>>]

\* InstallUtil::WriteInstallerResult(system, status, msg id, launch cmd):
\* launch is "NULL" for a NULL pointer, otherwise the string pointed to
WriteInstallerResult(status, msg, launch) ==
  [Call("WriteInstallerResult", status, 0, FALSE, msg)
     EXCEPT !.launch = launch]

Log(entries) == calls' = calls \o entries

CallsOf(op) == {i \in DOMAIN calls : calls[i].op = op}

Count(op) == Cardinality(CallsOf(op))

Writes == SelectSeq(calls, LAMBDA c : c.op = "WriteInstallerResult")

(***************************************************************************)
(* Initial states: the process has just started.                           *)
(***************************************************************************)
FileNames == {"chrome.exe", "new_chrome.exe", "chrome_old.exe"}

RegNames == {"opv", "cmd"}

\* the file system an in-use update leaves behind (and variations of it)
RenameFiles ==
  {f \in [FileNames -> {"absent", "old", "new"}] :
     /\ f["chrome.exe"] \in {"old", "new"}
     /\ f["new_chrome.exe"] \in {"new", "absent"}
     /\ f["chrome_old.exe"] \in {"old", "absent"}}

DefaultFiles ==
  [n \in FileNames |-> IF n = "chrome.exe" THEN "old" ELSE "absent"]

DefaultReg == [n \in RegNames |-> FALSE]

EmptyList == [list |-> <<>>, executed |-> <<>>]

\* no comparison is asked for
NoVersionProbe ==
  /\ ver_a = None
  /\ ver_b = None
  /\ ver_c = None
  /\ ver_out = "none"

\* no decoder exists
NoDecoder ==
  /\ state_ = "kUninitialized"
  /\ read_cb_ = FALSE
  /\ reset_cb_ = FALSE
  /\ codec = <<>>
  /\ codec_delay = 0
  /\ key = "none"
  /\ demuxer_once = <<>>
  /\ demuxer_rest = "end_of_stream"
  /\ saved_cb = FALSE
  /\ message_loop_ = <<>>

\* the locals of a run before it has done anything
InitRun ==
  /\ NoVersionProbe
  /\ NoDecoder
  /\ installDir0 = installDir
  /\ installDirAtUnpack = "unset"
  /\ temp_path = "none"
  /\ incremental_install = FALSE
  /\ unpack_ret = 0
  /\ installer_version = None
  /\ install_status = "UNKNOWN_STATUS"
  /\ ic_ret = NoStatus
  /\ main_status = "UNKNOWN_STATUS"
  /\ exit_code = "none"
  /\ calls = <<>>
  /\ files0 = files
  /\ reg0 = reg
  /\ wl = EmptyList

\* the command line may make the run read the registry's version
\* (lines 527, 699)
ReadsVersion(c) ==
  c \cap NonInstallSwitches = {} \/ "system-level-toast" \in c

\* the command line may make the run rename the executables (line 502)
MayRename(c) == "rename-chrome-exe" \in c

\* the installer process starts (wWinMain): any command line, versions of
\* one component in registry and payload; a part of the world that the
\* command line leaves unread has one value
Init ==
  /\ pc = "main_start"
  /\ cmd \in CommandLines
  /\ system_install \in BOOLEAN
  /\ reg_version \in (IF ReadsVersion(cmd) THEN ShortVersions \cup {None}
                      ELSE {None})
  /\ payload_version \in (IF IsInstallCmd(cmd) THEN ShortVersions \cup {None}
                          ELSE {None})
  /\ installed_version = None
  /\ installDir \in (IF IsInstallCmd(cmd) THEN {"absent", "present"}
                     ELSE {"present"})
  /\ files \in (IF MayRename(cmd) THEN RenameFiles ELSE {DefaultFiles})
  /\ reg = [n \in RegNames |-> MayRename(cmd)]
  /\ InitRun

\* InstallChrome is entered (line 713): nothing was written before, the
\* installed version is the registry's, any version may be in the payload
InitInstall ==
  /\ pc = "ic_preflight"
  /\ cmd \in SUBSET InstallSwitches
  /\ system_install \in BOOLEAN
  /\ reg_version \in Versions \cup {None}
  /\ payload_version \in Versions \cup {None}
  /\ installed_version = reg_version
  /\ installDir \in {"absent", "present"}
  /\ files = DefaultFiles
  /\ reg = DefaultReg
  /\ InitRun

\* RenameChromeExecutables is entered (line 502) after an in-use update
InitRename ==
  /\ pc = "rn_build"
  /\ cmd = {"rename-chrome-exe"}
  /\ system_install \in BOOLEAN
  /\ reg_version \in ShortVersions
  /\ payload_version = None
  /\ installed_version = None
  /\ installDir = "present"
  /\ files \in RenameFiles
  /\ reg \in [RegNames -> BOOLEAN]
  /\ InitRun

(***************************************************************************)
(* wWinMain.                                                               *)
(***************************************************************************)
Exit(code) ==
  /\ exit_code' = code
  /\ pc' = "exited"

\* lines 635-643: InstallUtil::IsOSSupported()
CheckOSSupported ==
  /\ pc = "main_start"
  /\ \E supported \in BOOLEAN :
       IF supported
       THEN /\ pc' = "main_com"
            /\ UNCHANGED <<exit_code, calls>>
       ELSE /\ Log(<<WriteInstallerResult("OS_NOT_SUPPORTED",
                       "IDS_INSTALL_OS_NOT_SUPPORTED_BASE", "NULL")>>)
            /\ Exit("OS_NOT_SUPPORTED")
  /\ UNCHANGED <<mainFrame, installed_version, icVars, rnVars>>

\* lines 583-593, 645-649: AutoCom::Init
AutoComInit ==
  /\ pc = "main_com"
  /\ \E ok \in BOOLEAN :
       IF ok
       THEN /\ pc' = "main_sxs"
            /\ UNCHANGED <<exit_code, calls>>
       ELSE /\ Log(<<WriteInstallerResult("OS_ERROR",
                       "IDS_INSTALL_OS_ERROR_BASE", "NULL")>>)
            /\ Exit("OS_ERROR")
  /\ UNCHANGED <<mainFrame, installed_version, icVars, rnVars>>

SxSDisallowed ==
  \/ system_install
  \/ cmd \cap {"force-uninstall", "make-chrome-default",
               "register-chrome-browser", "remove-chrome-registration",
               "inactive-user-toast", "system-level-toast"} # {}

\* lines 651-668: options that do not work with a side-by-side install
CheckSxS ==
  /\ pc = "main_sxs"
  /\ \E sxs \in BOOLEAN :
       /\ Log(<<Call("IsChromeSxSProcess", NoStatus, 0, sxs, "")>>)
       /\ IF sxs /\ SxSDisallowed
          THEN Exit("SXS_OPTION_NOT_SUPPORTED")
          ELSE /\ pc' = "main_options"
               /\ UNCHANGED exit_code
  /\ UNCHANGED <<mainFrame, installed_version, icVars, rnVars>>

(***************************************************************************)
(* HandleNonInstallCmdLineOptions: an if / else-if chain, one action per   *)
(* branch; each branch is guarded by the absence of the switches tested    *)
(* before it.                                                              *)
(***************************************************************************)
OptionOrder ==
  <<"update-setup-exe", "show-eula", "register-chrome-browser",
    "rename-chrome-exe", "remove-chrome-registration",
    "inactive-user-toast", "system-level-toast">>

\* the branch of the chain taken for option number k
OptionTaken(k) ==
  /\ pc = "main_options"
  /\ OptionOrder[k] \in cmd
  /\ \A j \in 1..(k - 1) : OptionOrder[j] \notin cmd

\* lines 440-472: --update-setup-exe
HandleUpdateSetupExe ==
  /\ OptionTaken(1)
  /\ \E tempOk \in BOOLEAN, lz \in ErrCodes, patch \in ErrCodes,
        nonzero \in BOOLEAN :
       LET unpacked == tempOk /\ lz = NO_ERROR
           status == IF unpacked /\ patch = 0 THEN "NEW_VERSION_UPDATED"
                     ELSE "SETUP_PATCH_FAILED"
           \* dist->GetInstallReturnCode(status): zero or the status
           code == IF nonzero THEN status ELSE "0"
       IN  /\ Log(<<Call("CreateNewTempDirectory", NoStatus, 0, tempOk,
                         "setup_temp")>>
                  \o (IF tempOk
                      THEN <<Call("LzmaUtil::UnPackArchive", NoStatus,
                                  lz, FALSE, "setup_patch")>>
                      ELSE <<>>)
                  \o (IF unpacked
                      THEN <<Call("ApplyDiffPatch", NoStatus, patch, FALSE,
                                  "setup.exe")>>
                      ELSE <<>>)
                  \o (IF code # "0"
                      THEN <<WriteInstallerResult(status,
                               "IDS_SETUP_PATCH_FAILED_BASE", "NULL")>>
                      ELSE <<>>)
                  \o <<Call("Delete", NoStatus, 0, TRUE, "setup_temp")>>)
           /\ Exit(code)
  /\ UNCHANGED <<mainFrame, installed_version, icVars, rnVars>>

\* lines 473-481: --show-eula
HandleShowEula ==
  /\ OptionTaken(2)
  /\ \E outcome \in {"EULA_REJECTED", "EULA_ACCEPTED",
                     "EULA_ACCEPTED_OPT_IN"} :
       /\ Log(<<Call("ShowEULADialog", outcome, 0, FALSE, "")>>
              \o (IF outcome # "EULA_REJECTED"
                  THEN <<Call("SetEULAConsent", NoStatus, 0, TRUE, "")>>
                  ELSE <<>>))
       /\ Exit(outcome)
  /\ UNCHANGED <<mainFrame, installed_version, icVars, rnVars>>

\* lines 482-498: --register-chrome-browser
HandleRegisterChromeBrowser ==
  /\ OptionTaken(3)
  /\ \E ok \in BOOLEAN :
       /\ Log(<<Call("RegisterChromeBrowser", NoStatus, 0, ok, "")>>)
       /\ Exit(IF ok THEN "1" ELSE "0")
  /\ UNCHANGED <<mainFrame, installed_version, icVars, rnVars>>

\* lines 499-503: --rename-chrome-exe, continues in RenameChromeExecutables
HandleRenameChromeExe ==
  /\ OptionTaken(4)
  /\ pc' = "rn_build"
  /\ UNCHANGED <<mainFrame, installed_version, exit_code, calls, icVars,
                 rnVars>>

\* lines 504-520: --remove-chrome-registration
HandleRemoveChromeRegistration ==
  /\ OptionTaken(5)
  /\ \E tmp \in {"UNKNOWN_STATUS", "UNINSTALL_SUCCESSFUL",
                 "UNINSTALL_FAILED"} :
       /\ Log(<<Call("DeleteChromeRegistrationKeys", tmp, 0, FALSE, "")>>)
       /\ Exit(tmp)
  /\ UNCHANGED <<mainFrame, installed_version, icVars, rnVars>>

\* lines 521-529: --inactive-user-toast; exit_code keeps its initial 0
HandleInactiveUserToast ==
  /\ OptionTaken(6)
  /\ Log(<<Call("InactiveUserToastExperiment", NoStatus, 0,
                "system-level-toast" \in cmd, "")>>)
  /\ Exit("0")
  /\ UNCHANGED <<mainFrame, installed_version, icVars, rnVars>>

\* lines 530-537: --system-level-toast.  *installed_version on a NULL
\* scoped_ptr is undefined: the process either dies there or goes on.
HandleSystemLevelToast ==
  /\ OptionTaken(7)
  /\ installed_version' = reg_version
  /\ \/ /\ Log(<<Call("LaunchUserExperiment", "REENTRY_SYS_UPDATE", 0,
                      reg_version # None, "")>>)
        /\ Exit("0")
     \/ /\ reg_version = None
        /\ pc' = "crashed"
        /\ UNCHANGED <<exit_code, calls>>
  /\ UNCHANGED <<mainFrame, icVars, rnVars>>

\* line 539: no non-install option is present
HandleNoOption ==
  /\ pc = "main_options"
  /\ cmd \cap NonInstallSwitches = {}
  /\ pc' = "main_admin"
  /\ UNCHANGED <<mainFrame, installed_version, exit_code, calls, icVars,
                 rnVars>>

\* what a child setup.exe may exit with
ChildExitCodes == {"UNKNOWN_STATUS", "0", "INSTALL_FAILED"}

\* line 675: IsUserAnAdmin(), asked of a system-level run only
AdminAsked(admin) == <<Call("IsUserAnAdmin", NoStatus, 0, admin, "")>>

\* line 676: win_util::GetWinVersion() >= WINVERSION_VISTA
WinVersionAsked(vista) == <<Call("GetWinVersion", NoStatus, 0, vista, "")>>

\* CheckAdmin that relaunches whether or not --run-as-admin was given
CheckAdmin_relaunchAgain ==
  /\ pc = "main_admin"
  /\ \E admin \in BOOLEAN, vista \in BOOLEAN, child \in ChildExitCodes :
       IF system_install /\ ~admin
       THEN IF vista
            THEN /\ Log(AdminAsked(admin) \o WinVersionAsked(vista)
                        \o <<Call("ExecuteExeAsAdmin", child, 0, TRUE,
                                  "--run-as-admin")>>)
                 /\ Exit(child)
            ELSE /\ Log(AdminAsked(admin) \o WinVersionAsked(vista)
                        \o <<WriteInstallerResult("INSUFFICIENT_RIGHTS",
                              "IDS_INSTALL_INSUFFICIENT_RIGHTS_BASE",
                              "NULL")>>)
                 /\ Exit("INSUFFICIENT_RIGHTS")
       ELSE /\ pc' = "main_version"
            /\ Log(IF system_install THEN AdminAsked(admin) ELSE <<>>)
            /\ UNCHANGED exit_code
  /\ UNCHANGED <<mainFrame, installed_version, icVars, rnVars>>

\* lines 675-695: a system-level install needs an administrator; the
\* relaunch logs the exit code of the child as its status
CheckAdmin ==
  /\ pc = "main_admin"
  /\ \E admin \in BOOLEAN, vista \in BOOLEAN, child \in ChildExitCodes :
       IF system_install /\ ~admin
       THEN IF vista /\ "run-as-admin" \notin cmd
            THEN /\ Log(AdminAsked(admin) \o WinVersionAsked(vista)
                        \o <<Call("ExecuteExeAsAdmin", child, 0, TRUE,
                                  "--run-as-admin")>>)
                 /\ Exit(child)
            ELSE /\ Log(AdminAsked(admin) \o WinVersionAsked(vista)
                        \o <<WriteInstallerResult("INSUFFICIENT_RIGHTS",
                              "IDS_INSTALL_INSUFFICIENT_RIGHTS_BASE",
                              "NULL")>>)
                 /\ Exit("INSUFFICIENT_RIGHTS")
       ELSE /\ pc' = "main_version"
            /\ Log(IF system_install THEN AdminAsked(admin) ELSE <<>>)
            /\ UNCHANGED exit_code
  /\ UNCHANGED <<mainFrame, installed_version, icVars, rnVars>>

\* lines 697-702: InstallUtil::GetChromeVersion(system_install)
GetInstalledVersion ==
  /\ pc = "main_version"
  /\ installed_version' = reg_version
  /\ pc' = IF "uninstall" \in cmd THEN "uninstall" ELSE "ic_preflight"
  /\ UNCHANGED <<mainFrame, exit_code, calls, icVars, rnVars>>

\* what installer_setup::UninstallChrome may answer
UninstallOutcomes ==
  {"UNINSTALL_SUCCESSFUL", "UNINSTALL_FAILED", "UNINSTALL_CANCELLED",
   "UNINSTALL_REQUIRES_REBOOT"}

\* UninstallChrome that asks for an installed version even when forced
UninstallChrome_needsVersion ==
  /\ pc = "uninstall"
  /\ LET force == "force-uninstall" \in cmd
     IN  IF installed_version = None
         THEN /\ Log(<<WriteInstallerResult("CHROME_NOT_INSTALLED",
                         "IDS_UNINSTALL_FAILED_BASE", "NULL")>>)
              /\ main_status' = "CHROME_NOT_INSTALLED"
         ELSE \E st \in UninstallOutcomes :
                /\ Log(<<Call("installer_setup::UninstallChrome", st, 0,
                              force, "")>>)
                /\ main_status' = st
  /\ pc' = "main_post"
  /\ UNCHANGED <<world, installed_version, exit_code, icVars, rnVars>>

\* lines 383-403, 706-710: UninstallChrome
UninstallChrome ==
  /\ pc = "uninstall"
  /\ LET force == "force-uninstall" \in cmd
     IN  IF installed_version = None /\ ~force
         THEN /\ Log(<<WriteInstallerResult("CHROME_NOT_INSTALLED",
                         "IDS_UNINSTALL_FAILED_BASE", "NULL")>>)
              /\ main_status' = "CHROME_NOT_INSTALLED"
         ELSE \E st \in UninstallOutcomes :
                /\ Log(<<Call("installer_setup::UninstallChrome", st, 0,
                              force, "")>>)
                /\ main_status' = st
  /\ pc' = "main_post"
  /\ UNCHANGED <<world, installed_version, exit_code, icVars, rnVars>>

\* FinishMain that reports the final status to the sink once more
FinishMain_rewrite ==
  /\ pc = "main_post"
  /\ \E nonzero \in BOOLEAN :
       /\ Log(<<WriteInstallerResult(main_status, "0", "NULL")>>)
       /\ Exit(IF nonzero THEN main_status ELSE "0")
  /\ UNCHANGED <<mainFrame, installed_version, icVars, rnVars>>

\* lines 718-748: Chrome Frame dialogs and the return code
FinishMain ==
  /\ pc = "main_post"
  /\ \E frame \in BOOLEAN, msi \in BOOLEAN, nonzero \in BOOLEAN :
       LET dialog ==
             IF frame /\ "force-uninstall" \notin cmd
             THEN IF main_status = "UNINSTALL_REQUIRES_REBOOT"
                  THEN <<Call("ShowRebootDialog", NoStatus, 0, FALSE, "")>>
                  ELSE IF "uninstall" \in cmd
                  THEN <<Call("MessageBoxW", NoStatus, 0, FALSE, "")>>
                  ELSE <<>>
             ELSE <<>>
           \* dist->GetInstallReturnCode(install_status)
           code == IF ~(msi /\ "uninstall" \in cmd) /\ nonzero
                   THEN main_status ELSE "0"
       IN  /\ Log(dialog)
           /\ Exit(code)
  /\ UNCHANGED <<mainFrame, installed_version, icVars, rnVars>>

(***************************************************************************)
(* UnPackArchive (lines 57-98) as a function of what its collaborators     *)
(* answer: lz1 the first LzmaUtil::UnPackArchive, has7z whether chrome.7z  *)
(* then exists in the temp directory, patch setup_util::ApplyDiffPatch,    *)
(* lz2 the final LzmaUtil::UnPackArchive.  It yields the DWORD returned,   *)
(* the incremental_install out-parameter and the calls made.               *)
(***************************************************************************)
UnPackLog(op, code, arg) == <<Call(op, NoStatus, code, FALSE, arg)>>

\* installer::GetChromeInstallPath(system_install), line 84
GetChromeInstallPath(system_level) ==
  IF system_level THEN "ProgramFiles/Chrome/Application"
  ELSE "LocalAppData/Chrome/Application"

\* Version::GetString(): the components as they were parsed
GetString(version) == ToString(version)

\* lines 83-88: the archive of the installed version, as path components
ExistingArchive(system_level, installed) ==
  <<GetChromeInstallPath(system_level), GetString(installed), "Installer",
    "chrome.7z">>

\* the archive of the installed version looked up under the user's root
ApplyDiffPatchLog_userRoot(system_level, installed, patch) ==
  <<[Call("ApplyDiffPatch", NoStatus, patch, FALSE, "installed/chrome.7z")
       EXCEPT !.path = ExistingArchive(FALSE, installed)]>>

\* lines 89-90: setup_util::ApplyDiffPatch(existing_archive, ...)
ApplyDiffPatchLog(system_level, installed, patch) ==
  <<[Call("ApplyDiffPatch", NoStatus, patch, FALSE, "installed/chrome.7z")
       EXCEPT !.path = ExistingArchive(system_level, installed)]>>

\* line 75: is chrome.7z among the files of the first decompression
PathExistsLog(found) ==
  <<Call("PathExists", NoStatus, 0, found, "chrome.7z")>>

\* UnPackArchive that goes on to the final unpack when the patch failed
UnPackArchive_ignorepatch(system_level, installed, lz1, has7z, patch, lz2) ==
  LET only  == UnPackLog("LzmaUtil::UnPackArchive", lz1, "archive")
      first == only \o PathExistsLog(has7z)
      final == UnPackLog("LzmaUtil::UnPackArchive", lz2, "chrome.7z")
      diff  == ApplyDiffPatchLog(system_level, installed, patch)
  IN  IF lz1 # NO_ERROR
      THEN [ret |-> lz1, incremental |-> FALSE, log |-> only]
      ELSE IF has7z
      THEN [ret |-> lz2, incremental |-> FALSE, log |-> first \o final]
      ELSE IF installed = None
      THEN [ret |-> CHROME_NOT_INSTALLED_CODE, incremental |-> TRUE,
            log |-> first]
      ELSE [ret |-> lz2, incremental |-> TRUE,
            log |-> first \o diff \o final]

\* UnPackArchive that patches without asking for an installed version
UnPackArchive_nocheck(system_level, installed, lz1, has7z, patch, lz2) ==
  LET only  == UnPackLog("LzmaUtil::UnPackArchive", lz1, "archive")
      first == only \o PathExistsLog(has7z)
      final == UnPackLog("LzmaUtil::UnPackArchive", lz2, "chrome.7z")
      diff  == ApplyDiffPatchLog(system_level, installed, patch)
  IN  IF lz1 # NO_ERROR
      THEN [ret |-> lz1, incremental |-> FALSE, log |-> only]
      ELSE IF has7z
      THEN [ret |-> lz2, incremental |-> FALSE, log |-> first \o final]
      ELSE IF patch # 0
      THEN [ret |-> patch, incremental |-> TRUE, log |-> first \o diff]
      ELSE [ret |-> lz2, incremental |-> TRUE,
            log |-> first \o diff \o final]

UnPackArchive(system_level, installed, lz1, has7z, patch, lz2) ==
  LET only  == UnPackLog("LzmaUtil::UnPackArchive", lz1, "archive")
      first == only \o PathExistsLog(has7z)
      final == UnPackLog("LzmaUtil::UnPackArchive", lz2, "chrome.7z")
      diff  == ApplyDiffPatchLog(system_level, installed, patch)
  IN  IF lz1 # NO_ERROR
      THEN [ret |-> lz1, incremental |-> FALSE, log |-> only]
      ELSE IF has7z
      THEN [ret |-> lz2, incremental |-> FALSE,
            log |-> first \o final]
      ELSE IF installed = None
      THEN [ret |-> CHROME_NOT_INSTALLED_CODE, incremental |-> TRUE,
            log |-> first]
      ELSE IF patch # 0
      THEN [ret |-> patch, incremental |-> TRUE,
            log |-> first \o diff]
      ELSE [ret |-> lz2, incremental |-> TRUE,
            log |-> first \o diff \o final]

(***************************************************************************)
(* CheckPreInstallConditions (lines 149-215) as a function of the          *)
(* installed version, the scope, the install directory and what the        *)
(* environment answers (env): other, a version is installed at the other   *)
(* scope; pathEmpty, GetChromeInstallPath failed; delOk, the directory     *)
(* could be deleted; dirLeft, what a failed deletion leaves of it.         *)
(***************************************************************************)
\* the directory is deleted whether or not this is a first install
NeedsDirDelete_always(is_first_install, dir) ==
  dir # "absent"

\* NeedsDirDelete that never finds a directory to delete
NeedsDirDelete_never(is_first_install, dir) ==
  FALSE

\* lines 200-203: a first install finds a directory at the install path
NeedsDirDelete(is_first_install, dir) ==
  is_first_install /\ dir # "absent"

\* LaunchesExisting with the test of is_first_install negated
LaunchesExisting_notFirst(sys, is_first_install) ==
  ~sys /\ ~is_first_install

\* line 159: a first user-level install meets a system-level installation
LaunchesExisting(sys, is_first_install) ==
  ~sys /\ is_first_install

\* ConflictStatus with the two statuses exchanged
ConflictStatus_swapped(sys) ==
  IF sys THEN "SYSTEM_LEVEL_INSTALL_EXISTS" ELSE "USER_LEVEL_INSTALL_EXISTS"

\* lines 187-188: the status of a conflict of scopes
ConflictStatus(sys) ==
  IF sys THEN "USER_LEVEL_INSTALL_EXISTS" ELSE "SYSTEM_LEVEL_INSTALL_EXISTS"

\* line 154: the probe for an installation at the other scope
OtherScopeProbe(found) ==
  <<Call("GetChromeVersion", NoStatus, 0, found, "other scope")>>

CheckPreInstallConditions(installed, sys, dir, env) ==
  LET is_first_install == installed = None
      probe == OtherScopeProbe(env.other)
  IN  IF env.other
      THEN IF LaunchesExisting(sys, is_first_install)
           THEN IF env.pathEmpty
                THEN [ok |-> FALSE, status |-> "OS_ERROR", dir |-> dir,
                      log |-> probe \o
                              <<WriteInstallerResult("OS_ERROR",
                                  "IDS_INSTALL_OS_ERROR_BASE", "NULL")>>]
                ELSE [ok |-> FALSE, status |-> "EXISTING_VERSION_LAUNCHED",
                      dir |-> dir,
                      log |-> probe \o
                              <<WriteInstallerResult(
                                  "EXISTING_VERSION_LAUNCHED", "0", "NULL"),
                                Call("LaunchApp", NoStatus, 0, FALSE,
                                     "system chrome.exe --first-run")>>]
           ELSE LET st == ConflictStatus(sys)
                    msg == IF sys THEN "IDS_INSTALL_USER_LEVEL_EXISTS_BASE"
                           ELSE "IDS_INSTALL_SYSTEM_LEVEL_EXISTS_BASE"
                IN  [ok |-> FALSE, status |-> st, dir |-> dir,
                     log |-> probe \o
                             <<WriteInstallerResult(st, msg, "NULL")>>]
      ELSE IF NeedsDirDelete(is_first_install, dir)
      THEN LET del == Call("Delete", NoStatus, 0, env.delOk, "install_path")
           IN  IF env.delOk
               THEN [ok |-> TRUE, status |-> "UNKNOWN_STATUS",
                     dir |-> "absent", log |-> probe \o <<del>>]
               ELSE [ok |-> FALSE, status |-> "INSTALL_DIR_IN_USE",
                     dir |-> env.dirLeft,
                     log |-> probe \o
                             <<del, WriteInstallerResult(
                                 "INSTALL_DIR_IN_USE",
                                 "IDS_INSTALL_DIR_IN_USE_BASE", "NULL")>>]
      ELSE [ok |-> TRUE, status |-> "UNKNOWN_STATUS", dir |-> dir,
            log |-> probe]

(***************************************************************************)
(* InstallChrome (lines 217-381), one action per step.                     *)
(***************************************************************************)
icFrame == <<world, installed_version, exit_code, files, reg, wl>>

\* InstallChrome returns st to wWinMain (line 713)
ICReturn(st) ==
  /\ ic_ret' = st
  /\ main_status' = st
  /\ pc' = "main_post"

\* lines 219-225: preflight
ICPreflight ==
  /\ pc = "ic_preflight"
  /\ \E other \in BOOLEAN, pathEmpty \in BOOLEAN, delOk \in BOOLEAN,
        dirLeft \in {installDir, "partial"} :
       LET r == CheckPreInstallConditions(installed_version, system_install,
                  installDir,
                  [other |-> other, pathEmpty |-> pathEmpty, delOk |-> delOk,
                   dirLeft |-> dirLeft])
       IN  /\ install_status' = r.status
           /\ installDir' = r.dir
           /\ Log(r.log)
           /\ IF r.ok
              THEN /\ pc' = "ic_tempdir"
                   /\ UNCHANGED <<ic_ret, main_status>>
              ELSE ICReturn(r.status)
  /\ UNCHANGED <<icFrame, installDirAtUnpack, temp_path, incremental_install,
                 unpack_ret, installer_version>>

\* ICCreateTemp that returns the install_status local on failure
ICCreateTemp_returnlocal ==
  /\ pc = "ic_tempdir"
  /\ \E ok \in BOOLEAN :
       IF ok
       THEN /\ temp_path' = "exists"
            /\ Log(<<Call("CreateNewTempDirectory", NoStatus, 0, TRUE,
                          "temp_path")>>)
            /\ pc' = "ic_unpack"
            /\ UNCHANGED <<ic_ret, main_status>>
       ELSE /\ Log(<<Call("CreateNewTempDirectory", NoStatus, 0, FALSE,
                          "temp_path"),
                     WriteInstallerResult("TEMP_DIR_FAILED",
                       "IDS_INSTALL_TEMP_DIR_FAILED_BASE", "NULL")>>)
            /\ ICReturn(install_status)
            /\ UNCHANGED temp_path
  /\ UNCHANGED <<icFrame, installDir, installDirAtUnpack, incremental_install,
                 unpack_ret, installer_version, install_status>>

\* lines 240-251: the temp directory of the run
ICCreateTemp ==
  /\ pc = "ic_tempdir"
  /\ \E ok \in BOOLEAN :
       IF ok
       THEN /\ temp_path' = "exists"
            /\ Log(<<Call("CreateNewTempDirectory", NoStatus, 0, TRUE,
                          "temp_path")>>)
            /\ pc' = "ic_unpack"
            /\ UNCHANGED <<ic_ret, main_status>>
       ELSE /\ Log(<<Call("CreateNewTempDirectory", NoStatus, 0, FALSE,
                          "temp_path"),
                     WriteInstallerResult("TEMP_DIR_FAILED",
                       "IDS_INSTALL_TEMP_DIR_FAILED_BASE", "NULL")>>)
            /\ ICReturn("TEMP_DIR_FAILED")
            /\ UNCHANGED temp_path
  /\ UNCHANGED <<icFrame, installDir, installDirAtUnpack, incremental_install,
                 unpack_ret, installer_version, install_status>>

\* ICUnpack that returns at once when the unpacking failed
ICUnpack_earlyReturn ==
  /\ pc = "ic_unpack"
  /\ installDirAtUnpack' = installDir
  /\ \E lz1 \in ErrCodes, has7z \in BOOLEAN, patch \in ErrCodes,
        lz2 \in ErrCodes :
       LET r == UnPackArchive(system_install, installed_version, lz1, has7z,
                              patch, lz2)
       IN  /\ incremental_install' = r.incremental
           /\ unpack_ret' = r.ret
           /\ IF r.ret # 0
              THEN /\ install_status' = "UNCOMPRESSION_FAILED"
                   /\ Log(r.log \o <<WriteInstallerResult(
                            "UNCOMPRESSION_FAILED",
                            "IDS_INSTALL_UNCOMPRESSION_FAILED_BASE", "NULL")>>)
                   /\ ICReturn("UNCOMPRESSION_FAILED")
              ELSE /\ Log(r.log)
                   /\ pc' = "ic_probe"
                   /\ UNCHANGED <<install_status, ic_ret, main_status>>
  /\ UNCHANGED <<icFrame, installDir, temp_path, installer_version>>

\* lines 257-266: unpack the archive
ICUnpack ==
  /\ pc = "ic_unpack"
  /\ installDirAtUnpack' = installDir
  /\ \E lz1 \in ErrCodes, has7z \in BOOLEAN, patch \in ErrCodes,
        lz2 \in ErrCodes :
       LET r == UnPackArchive(system_install, installed_version, lz1, has7z,
                              patch, lz2)
       IN  /\ incremental_install' = r.incremental
           /\ unpack_ret' = r.ret
           /\ IF r.ret # 0
              THEN /\ install_status' = "UNCOMPRESSION_FAILED"
                   /\ Log(r.log \o <<WriteInstallerResult(
                            "UNCOMPRESSION_FAILED",
                            "IDS_INSTALL_UNCOMPRESSION_FAILED_BASE", "NULL")>>)
                   /\ pc' = "ic_cleanup"
              ELSE /\ Log(r.log)
                   /\ pc' = "ic_probe"
                   /\ UNCHANGED install_status
  /\ UNCHANGED <<icFrame, installDir, temp_path, installer_version, ic_ret,
                 main_status>>

\* ICProbeVersion that does not check whether a version was found
ICProbeVersion_nocheck ==
  /\ pc = "ic_probe"
  /\ installer_version' = payload_version
  /\ Log(<<Call("GetVersionFromDir", NoStatus, 0, payload_version # None,
                "")>>)
  /\ pc' = "ic_compare"
  /\ UNCHANGED <<icFrame, installDir, installDirAtUnpack, temp_path,
                 incremental_install, unpack_ret, install_status, ic_ret,
                 main_status>>

\* lines 267-277: the version carried by the unpacked payload
ICProbeVersion ==
  /\ pc = "ic_probe"
  /\ installer_version' = payload_version
  /\ IF payload_version = None
     THEN /\ install_status' = "INVALID_ARCHIVE"
          /\ Log(<<Call("GetVersionFromDir", NoStatus, 0, FALSE, ""),
                   WriteInstallerResult("INVALID_ARCHIVE",
                     "IDS_INSTALL_INVALID_ARCHIVE_BASE", "NULL")>>)
          /\ pc' = "ic_experiment"
     ELSE /\ Log(<<Call("GetVersionFromDir", NoStatus, 0, TRUE, "")>>)
          /\ pc' = "ic_compare"
          /\ UNCHANGED install_status
  /\ UNCHANGED <<icFrame, installDir, installDirAtUnpack, temp_path,
                 incremental_install, unpack_ret, ic_ret, main_status>>

\* the comparison with its operands exchanged
HigherVersionExists_swapped(installed, candidate) ==
  installed # None /\ IsHigherThan(candidate, installed)

\* the comparison made non-strict
HigherVersionExists_orEqual(installed, candidate) ==
  installed # None /\ Compare(installed, candidate) # "less"

\* lines 279-280: is the run a downgrade
HigherVersionExists(installed, candidate) ==
  installed # None /\ IsHigherThan(installed, candidate)

\* ICCompareVersions that goes on to the mutation after refusing a downgrade
ICCompareVersions_fallthrough ==
  /\ pc = "ic_compare"
  /\ IF HigherVersionExists(installed_version, installer_version)
     THEN /\ install_status' = "HIGHER_VERSION_EXISTS"
          /\ Log(<<WriteInstallerResult("HIGHER_VERSION_EXISTS",
                     "IDS_INSTALL_HIGHER_VERSION_BASE", "NULL")>>)
     ELSE UNCHANGED <<install_status, calls>>
  /\ pc' = "ic_mutate"
  /\ UNCHANGED <<icFrame, installDir, installDirAtUnpack, temp_path,
                 incremental_install, unpack_ret, installer_version, ic_ret,
                 main_status>>

\* lines 278-286: refuse a downgrade
ICCompareVersions ==
  /\ pc = "ic_compare"
  /\ IF HigherVersionExists(installed_version, installer_version)
     THEN /\ install_status' = "HIGHER_VERSION_EXISTS"
          /\ Log(<<WriteInstallerResult("HIGHER_VERSION_EXISTS",
                     "IDS_INSTALL_HIGHER_VERSION_BASE", "NULL")>>)
          /\ pc' = "ic_experiment"
     ELSE /\ pc' = "ic_mutate"
          /\ UNCHANGED <<install_status, calls>>
  /\ UNCHANGED <<icFrame, installDir, installDirAtUnpack, temp_path,
                 incremental_install, unpack_ret, installer_version, ic_ret,
                 main_status>>

(***************************************************************************)
(* installer::InstallOrUpdateChrome (install.cc): the outcomes of the      *)
(* mutation, by the relation of the candidate to the installed version,    *)
(* and what it leaves at the install path.                                 *)
(***************************************************************************)
InstallOrUpdateChromeOutcomes(installed, candidate) ==
  IF installed = None
  THEN {"FIRST_INSTALL_SUCCESS", "INSTALL_FAILED"}
  ELSE IF Compare(candidate, installed) = "equal"
  THEN {"INSTALL_REPAIRED", "SAME_VERSION_REPAIR_FAILED", "INSTALL_FAILED"}
  ELSE {"NEW_VERSION_UPDATED", "IN_USE_UPDATED", "INSTALL_FAILED"}

MutatedDirs(outcome, dir) ==
  IF outcome \in {"INSTALL_FAILED", "SAME_VERSION_REPAIR_FAILED"}
  THEN {dir, "partial"}
  ELSE {"installed"}

(***************************************************************************)
(* Lines 297-323: the result payload for an outcome of the mutation.       *)
(* pathEmpty: GetChromeInstallPath failed; doNotRegister: the              *)
(* do-not-register-for-update-launch preference.                           *)
(***************************************************************************)
\* a read of a boolean of the distribution preferences (lines 314, 329)
PrefRead(name, value) ==
  <<Call("GetDistroBooleanPreference", NoStatus, 0, value, name)>>

\* ResultPayload that passes the launch string of an in-use update too
ResultPayload_inUseLaunch(outcome, pathEmpty, doNotRegister) ==
  LET mapped ==
        IF outcome = "SAME_VERSION_REPAIR_FAILED"
        THEN [status |-> outcome, chrome_exe |-> "",
              msg |-> "IDS_SAME_VERSION_REPAIR_FAILED_BASE"]
        ELSE IF outcome # "INSTALL_FAILED"
        THEN IF pathEmpty
             THEN [status |-> "OS_ERROR", chrome_exe |-> "",
                   msg |-> "IDS_INSTALL_OS_ERROR_BASE"]
             ELSE [status |-> outcome, chrome_exe |-> "chrome.exe",
                   msg |-> "0"]
        ELSE [status |-> outcome, chrome_exe |-> "",
              msg |-> "IDS_INSTALL_FAILED_BASE"]
      write_chrome_launch_string == ~doNotRegister
  IN  [status |-> mapped.status, msg |-> mapped.msg,
       launch |-> IF write_chrome_launch_string THEN mapped.chrome_exe
                  ELSE "NULL"]

ResultPayload(outcome, pathEmpty, doNotRegister) ==
  LET mapped ==
        IF outcome = "SAME_VERSION_REPAIR_FAILED"
        THEN [status |-> outcome, chrome_exe |-> "",
              msg |-> "IDS_SAME_VERSION_REPAIR_FAILED_BASE"]
        ELSE IF outcome # "INSTALL_FAILED"
        THEN IF pathEmpty
             THEN [status |-> "OS_ERROR", chrome_exe |-> "",
                   msg |-> "IDS_INSTALL_OS_ERROR_BASE"]
             ELSE [status |-> outcome, chrome_exe |-> "chrome.exe",
                   msg |-> "0"]
        ELSE [status |-> outcome, chrome_exe |-> "",
              msg |-> "IDS_INSTALL_FAILED_BASE"]
      write_chrome_launch_string ==
        ~doNotRegister /\ mapped.status # "IN_USE_UPDATED"
  IN  [status |-> mapped.status, msg |-> mapped.msg,
       launch |-> IF write_chrome_launch_string THEN mapped.chrome_exe
                  ELSE "NULL"]

\* ICMutate that tries the mutation a second time after a failure
ICMutate_retry ==
  /\ pc = "ic_mutate"
  /\ \E outcome \in InstallOrUpdateChromeOutcomes(installed_version,
                                                  installer_version),
        pathEmpty \in BOOLEAN, doNotRegister \in BOOLEAN :
       LET r == ResultPayload(outcome, pathEmpty, doNotRegister)
           again == outcome = "INSTALL_FAILED"
                    /\ Count("InstallOrUpdateChrome") = 0
       IN  /\ installDir' \in MutatedDirs(outcome, installDir)
           /\ install_status' = r.status
           /\ Log(<<Call("InstallOrUpdateChrome", outcome, 0, FALSE, "")>>
                  \o (IF again THEN <<>>
                      ELSE PrefRead("do_not_register_for_update_launch",
                                    doNotRegister)
                           \o <<WriteInstallerResult(r.status, r.msg,
                                                     r.launch)>>))
           /\ pc' = IF again THEN "ic_mutate" ELSE "ic_post"
  /\ UNCHANGED <<icFrame, installDirAtUnpack, temp_path, incremental_install,
                 unpack_ret, installer_version, ic_ret, main_status>>

\* lines 287-323: the mutation and the write of its result
ICMutate ==
  /\ pc = "ic_mutate"
  /\ \E outcome \in InstallOrUpdateChromeOutcomes(installed_version,
                                                  installer_version),
        pathEmpty \in BOOLEAN, doNotRegister \in BOOLEAN :
       LET r == ResultPayload(outcome, pathEmpty, doNotRegister)
       IN  /\ installDir' \in MutatedDirs(outcome, installDir)
           /\ install_status' = r.status
           /\ Log(<<Call("InstallOrUpdateChrome", outcome, 0, FALSE, "")>>
                  \o PrefRead("do_not_register_for_update_launch",
                              doNotRegister)
                  \o <<WriteInstallerResult(r.status, r.msg, r.launch)>>)
  /\ pc' = "ic_post"
  /\ UNCHANGED <<icFrame, installDirAtUnpack, temp_path, incremental_install,
                 unpack_ret, installer_version, ic_ret, main_status>>

\* PostInstallCalls that removes the legacy keys after a repair too
PostInstallCalls_repair(status, sys, do_not_launch_chrome) ==
  IF status = "FIRST_INSTALL_SUCCESS"
  THEN PrefRead("do_not_launch_chrome", do_not_launch_chrome)
       \o (IF ~sys /\ ~do_not_launch_chrome
           THEN <<Call("LaunchChrome", NoStatus, 0, sys, "")>>
           ELSE <<>>)
  ELSE IF status \in {"NEW_VERSION_UPDATED", "IN_USE_UPDATED",
                      "INSTALL_REPAIRED"}
  THEN <<Call("RemoveLegacyRegistryKeys", NoStatus, 0, FALSE, "")>>
  ELSE <<>>

\* PostInstallCalls that launches at system level too
PostInstallCalls_anyScope(status, sys, do_not_launch_chrome) ==
  IF status = "FIRST_INSTALL_SUCCESS"
  THEN PrefRead("do_not_launch_chrome", do_not_launch_chrome)
       \o (IF ~do_not_launch_chrome
           THEN <<Call("LaunchChrome", NoStatus, 0, sys, "")>>
           ELSE <<>>)
  ELSE IF status \in {"NEW_VERSION_UPDATED", "IN_USE_UPDATED"}
  THEN <<Call("RemoveLegacyRegistryKeys", NoStatus, 0, FALSE, "")>>
  ELSE <<>>

\* lines 325-337: what follows the write, by status
PostInstallCalls(status, sys, do_not_launch_chrome) ==
  IF status = "FIRST_INSTALL_SUCCESS"
  THEN PrefRead("do_not_launch_chrome", do_not_launch_chrome)
       \o (IF ~sys /\ ~do_not_launch_chrome
           THEN <<Call("LaunchChrome", NoStatus, 0, sys, "")>>
           ELSE <<>>)
  ELSE IF status \in {"NEW_VERSION_UPDATED", "IN_USE_UPDATED"}
  THEN <<Call("RemoveLegacyRegistryKeys", NoStatus, 0, FALSE, "")>>
  ELSE <<>>

\* lines 325-337: auto-launch or legacy key removal
ICPostInstall ==
  /\ pc = "ic_post"
  /\ \E do_not_launch_chrome \in BOOLEAN :
       Log(PostInstallCalls(install_status, system_install,
                            do_not_launch_chrome))
  /\ pc' = "ic_experiment"
  /\ UNCHANGED <<icFrame, icVars, main_status>>

\* lines 340-348: the user experiment hook.  *installer_version on a NULL
\* scoped_ptr is undefined: the process either dies there or goes on.
ICUserExperiment ==
  /\ pc = "ic_experiment"
  /\ \/ /\ Log(<<Call("LaunchUserExperiment", install_status, 0,
                      installer_version # None, "")>>)
        /\ pc' = "ic_cleanup"
     \/ /\ installer_version = None
        /\ pc' = "crashed"
        /\ UNCHANGED calls
  /\ UNCHANGED <<icFrame, icVars, main_status>>

(***************************************************************************)
(* Lines 351-376: cleanup, as a function of whether the command line has   *)
(* --installer-data and of the outcome of the two deletions.               *)
(***************************************************************************)
\* CleanupCalls that looks at the deletion of the temp directory only
CleanupCalls_tempOnly(hasData, tempDeleted, prefsDeleted) ==
  LET cleanup_success == tempDeleted
  IN  <<Call("Delete", NoStatus, 0, tempDeleted, "temp_path")>>
      \o (IF hasData
          THEN <<Call("Delete", NoStatus, 0, prefsDeleted, "prefs_path")>>
          ELSE <<>>)
      \o (IF ~cleanup_success
          THEN <<Call("ScheduleDirectoryForDeletion", NoStatus, 0, FALSE,
                      "temp_path")>>
               \o (IF hasData
                   THEN <<Call("ScheduleDirectoryForDeletion", NoStatus, 0,
                               FALSE, "prefs_path")>>
                   ELSE <<>>)
          ELSE <<>>)

CleanupCalls(hasData, tempDeleted, prefsDeleted) ==
  LET cleanup_success ==
        IF hasData THEN prefsDeleted /\ tempDeleted ELSE tempDeleted
  IN  <<Call("Delete", NoStatus, 0, tempDeleted, "temp_path")>>
      \o (IF hasData
          THEN <<Call("Delete", NoStatus, 0, prefsDeleted, "prefs_path")>>
          ELSE <<>>)
      \o (IF ~cleanup_success
          THEN <<Call("ScheduleDirectoryForDeletion", NoStatus, 0, FALSE,
                      "temp_path")>>
               \o (IF hasData
                   THEN <<Call("ScheduleDirectoryForDeletion", NoStatus, 0,
                               FALSE, "prefs_path")>>
                   ELSE <<>>)
          ELSE <<>>)

\* lines 351-376: delete the temp directory and the preferences file
ICCleanup ==
  /\ pc = "ic_cleanup"
  /\ \E tempDeleted \in BOOLEAN, prefsDeleted \in BOOLEAN :
       /\ Log(CleanupCalls("installer-data" \in cmd, tempDeleted,
                           prefsDeleted))
       /\ temp_path' = IF tempDeleted THEN "deleted" ELSE "exists"
  /\ pc' = "ic_track"
  /\ UNCHANGED <<icFrame, installDir, installDirAtUnpack, incremental_install,
                 unpack_ret, installer_version, install_status, ic_ret,
                 main_status>>

\* lines 378-380: the update tracking hook and the return
ICTrackAndReturn ==
  /\ pc = "ic_track"
  /\ Log(<<Call("UpdateDiffInstallStatus", install_status, 0,
                incremental_install,
                IF system_install THEN "system" ELSE "user")>>)
  /\ ICReturn(install_status)
  /\ UNCHANGED <<icFrame, installDir, installDirAtUnpack, temp_path,
                 incremental_install, unpack_ret, installer_version,
                 install_status>>

(***************************************************************************)
(* WorkItem and WorkItemList (chrome/installer/util): an ordered list of   *)
(* reversible mutations.  An item that fails changes nothing; an item      *)
(* that succeeds keeps what it needs to revert itself.                     *)
(***************************************************************************)
DeleteTreeWorkItem(id, path) ==
  [id |-> id, kind |-> "DeleteTree", target |-> path, source |-> ""]

CopyTreeWorkItem(id, src, dest) ==
  [id |-> id, kind |-> "CopyTree", target |-> dest, source |-> src]

DeleteRegValueWorkItem(id, name) ==
  [id |-> id, kind |-> "DeleteRegValue", target |-> name, source |-> ""]

\* can the item succeed at all in file system f
ItemPossible(item, f) ==
  item.kind = "CopyTree" => f[item.source] # "absent"

\* the item has nothing to do in file system f (CopyTree IF_DIFFERENT)
ItemNoOp(item, f) ==
  item.kind = "CopyTree" /\ f[item.source] = f[item.target]

\* WorkItem::Do of item on files f and registry r; ok: no step of it fails
ItemDo(item, f, r, ok) ==
  IF ~ok \/ ~ItemPossible(item, f)
  THEN [ok |-> FALSE, files |-> f, reg |-> r, fbackup |-> "none",
        rbackup |-> FALSE]
  ELSE IF item.kind = "DeleteTree"
  THEN [ok |-> TRUE, files |-> [f EXCEPT ![item.target] = "absent"],
        reg |-> r, fbackup |-> f[item.target], rbackup |-> FALSE]
  ELSE IF item.kind = "CopyTree"
  THEN IF ItemNoOp(item, f)
       THEN [ok |-> TRUE, files |-> f, reg |-> r, fbackup |-> "none",
             rbackup |-> FALSE]
       ELSE [ok |-> TRUE,
             files |-> [f EXCEPT ![item.target] = f[item.source]],
             reg |-> r, fbackup |-> f[item.target], rbackup |-> FALSE]
  ELSE [ok |-> TRUE, files |-> f,
        reg |-> [r EXCEPT ![item.target] = FALSE],
        fbackup |-> "none", rbackup |-> r[item.target]]

\* WorkItem::Rollback of an executed item e; ok: the revert succeeds
ItemRollback(e, f, r, ok) ==
  IF ~ok
  THEN [files |-> f, reg |-> r]
  ELSE IF e.item.kind = "DeleteRegValue"
  THEN [files |-> f, reg |-> [r EXCEPT ![e.item.target] = e.rbackup]]
  ELSE IF e.fbackup = "none"
  THEN [files |-> f, reg |-> r]
  ELSE [files |-> [f EXCEPT ![e.item.target] = e.fbackup], reg |-> r]

(***************************************************************************)
(* RenameChromeExecutables (lines 106-147).                                *)
(***************************************************************************)
\* RenameItems with source and destination of the copy exchanged
RenameItems_copyReversed ==
  <<DeleteTreeWorkItem(1, "chrome_old.exe"),
    CopyTreeWorkItem(2, "chrome.exe", "new_chrome.exe"),
    DeleteRegValueWorkItem(3, "opv"),
    DeleteTreeWorkItem(4, "new_chrome.exe"),
    DeleteRegValueWorkItem(5, "cmd")>>

\* lines 117, 123-138: the items in the order they are added
RenameItems ==
  <<DeleteTreeWorkItem(1, "chrome_old.exe"),
    CopyTreeWorkItem(2, "new_chrome.exe", "chrome.exe"),
    DeleteRegValueWorkItem(3, "opv"),
    DeleteTreeWorkItem(4, "new_chrome.exe"),
    DeleteRegValueWorkItem(5, "cmd")>>

rnFrame == <<world, installed_version, main_status, icVars>>

\* the Add...WorkItem calls for items from..to of RenameItems
AddCalls(from, to) ==
  [i \in 1..(to - from + 1) |->
     Call("AddWorkItem", NoStatus, RenameItems[from + i - 1].id, FALSE,
          RenameItems[from + i - 1].kind)]

\* RenameBuild with the stale backup deleted on the spot instead of by a
\* work item
RenameBuild_eager ==
  /\ pc = "rn_build"
  /\ files' = [files EXCEPT !["chrome_old.exe"] = "absent"]
  /\ \E tempOk \in BOOLEAN :
       IF tempOk
       THEN /\ Log(AddCalls(1, 1)
                   \o <<Call("CreateNewTempDirectory", NoStatus, 0, TRUE,
                             "rename_temp")>>
                   \o AddCalls(2, Len(RenameItems)))
            /\ wl' = [wl EXCEPT !.list = RenameItems]
            /\ pc' = "rn_do"
            /\ UNCHANGED exit_code
       ELSE /\ Log(AddCalls(1, 1)
                   \o <<Call("CreateNewTempDirectory", NoStatus, 0, FALSE,
                             "rename_temp")>>)
            /\ wl' = [wl EXCEPT !.list = SubSeq(RenameItems, 1, 1)]
            /\ Exit("RENAME_FAILED")
  /\ UNCHANGED <<rnFrame, reg>>

\* RenameBuild with the old-version value deleted on the spot, outside the
\* list
RenameBuild_clearsMarker ==
  /\ pc = "rn_build"
  /\ reg' = [reg EXCEPT !["opv"] = FALSE]
  /\ \E tempOk \in BOOLEAN :
       IF tempOk
       THEN /\ Log(AddCalls(1, 1)
                   \o <<Call("CreateNewTempDirectory", NoStatus, 0, TRUE,
                             "rename_temp")>>
                   \o AddCalls(2, Len(RenameItems)))
            /\ wl' = [wl EXCEPT !.list = RenameItems]
            /\ pc' = "rn_do"
            /\ UNCHANGED exit_code
       ELSE /\ Log(AddCalls(1, 1)
                   \o <<Call("CreateNewTempDirectory", NoStatus, 0, FALSE,
                             "rename_temp")>>)
            /\ wl' = [wl EXCEPT !.list = SubSeq(RenameItems, 1, 1)]
            /\ Exit("RENAME_FAILED")
  /\ UNCHANGED <<rnFrame, files>>

\* lines 107-138: build the list; the temp directory is created after the
\* first item was added, and a failure to create it returns RENAME_FAILED
RenameBuild ==
  /\ pc = "rn_build"
  /\ \E tempOk \in BOOLEAN :
       IF tempOk
       THEN /\ Log(AddCalls(1, 1)
                   \o <<Call("CreateNewTempDirectory", NoStatus, 0, TRUE,
                             "rename_temp")>>
                   \o AddCalls(2, Len(RenameItems)))
            /\ wl' = [wl EXCEPT !.list = RenameItems]
            /\ pc' = "rn_do"
            /\ UNCHANGED exit_code
       ELSE /\ Log(AddCalls(1, 1)
                   \o <<Call("CreateNewTempDirectory", NoStatus, 0, FALSE,
                             "rename_temp")>>)
            /\ wl' = [wl EXCEPT !.list = SubSeq(RenameItems, 1, 1)]
            /\ Exit("RENAME_FAILED")
  /\ UNCHANGED <<rnFrame, files, reg>>

\* WorkItemList::Do, one item per step: the first item of the list is
\* removed from it and executed; a failure ends the execution
WorkItemListDo ==
  /\ pc = "rn_do"
  /\ wl.list # <<>>
  /\ \E ok \in BOOLEAN :
       LET item == Head(wl.list)
           r == ItemDo(item, files, reg, ok)
       IN  /\ files' = r.files
           /\ reg' = r.reg
           /\ Log(<<Call("WorkItem::Do", NoStatus, item.id, r.ok,
                         item.kind)>>)
           /\ IF r.ok
              THEN /\ wl' = [list |-> Tail(wl.list),
                             executed |-> <<[item |-> item,
                                             fbackup |-> r.fbackup,
                                             rbackup |-> r.rbackup]>>
                                          \o wl.executed]
                   /\ pc' = "rn_do"
              ELSE /\ wl' = [wl EXCEPT !.list = Tail(wl.list)]
                   /\ pc' = "rn_auto_rollback"
  /\ UNCHANGED <<rnFrame, exit_code>>

\* WorkItemList::Do returns true: every item succeeded (line 140)
WorkItemListDone ==
  /\ pc = "rn_do"
  /\ wl.list = <<>>
  /\ pc' = "rn_cleanup"
  /\ UNCHANGED <<rnFrame, rnVars, exit_code, calls>>

\* the hand-over of the path of a file item whose revert failed to the
\* deferred deletion
RollbackDeferred(e, ok) ==
  IF ~ok /\ e.item.kind # "DeleteRegValue"
  THEN <<Call("ScheduleDirectoryForDeletion", NoStatus, e.item.id, FALSE,
              e.item.target)>>
  ELSE <<>>

\* RollbackStep that ends the rollback at a revert that fails
RollbackStep_stopOnFailure ==
  \E ok \in BOOLEAN :
    LET e == Head(wl.executed)
        r == ItemRollback(e, files, reg, ok)
    IN  /\ files' = r.files
        /\ reg' = r.reg
        /\ wl' = [wl EXCEPT !.executed = IF ok THEN Tail(wl.executed)
                                         ELSE <<>>]
        /\ Log(<<Call("WorkItem::Rollback", NoStatus, e.item.id, ok,
                      e.item.kind)>> \o RollbackDeferred(e, ok))

\* RollbackStep that only logs a revert that fails
RollbackStep_logOnly ==
  \E ok \in BOOLEAN :
    LET e == Head(wl.executed)
        r == ItemRollback(e, files, reg, ok)
    IN  /\ files' = r.files
        /\ reg' = r.reg
        /\ wl' = [wl EXCEPT !.executed = Tail(wl.executed)]
        /\ Log(<<Call("WorkItem::Rollback", NoStatus, e.item.id, ok,
                      e.item.kind)>>)

\* one step of a rollback: the most recently executed item is reverted;
\* a revert that fails is not repeated, its path goes to the deferred
\* deletion
RollbackStep ==
  \E ok \in BOOLEAN :
    LET e == Head(wl.executed)
        r == ItemRollback(e, files, reg, ok)
    IN  /\ files' = r.files
        /\ reg' = r.reg
        /\ wl' = [wl EXCEPT !.executed = Tail(wl.executed)]
        /\ Log(<<Call("WorkItem::Rollback", NoStatus, e.item.id, ok,
                      e.item.kind)>> \o RollbackDeferred(e, ok))

\* AutoRollback that reverts nothing
AutoRollback_none ==
  /\ pc = "rn_auto_rollback"
  /\ pc' = "rn_rollback"
  /\ UNCHANGED <<rnFrame, rnVars, calls, exit_code>>

\* the rollback a failed execution performs before it returns false
AutoRollback ==
  /\ pc = "rn_auto_rollback"
  /\ IF wl.executed # <<>>
     THEN /\ RollbackStep
          /\ pc' = "rn_auto_rollback"
     ELSE /\ pc' = "rn_rollback"
          /\ UNCHANGED <<rnVars, calls>>
  /\ UNCHANGED <<rnFrame, exit_code>>

\* ExplicitRollback after which the rest of the list is executed
ExplicitRollback_resume ==
  /\ pc = "rn_rollback"
  /\ IF wl.executed # <<>>
     THEN /\ RollbackStep
          /\ pc' = "rn_rollback"
     ELSE /\ pc' = IF wl.list # <<>> THEN "rn_do" ELSE "rn_cleanup"
          /\ UNCHANGED <<rnVars, calls>>
  /\ UNCHANGED <<rnFrame, exit_code>>

\* lines 141-143: the caller's install_list->Rollback()
ExplicitRollback ==
  /\ pc = "rn_rollback"
  /\ IF wl.executed # <<>>
     THEN /\ RollbackStep
          /\ pc' = "rn_rollback"
     ELSE /\ pc' = "rn_cleanup"
          /\ UNCHANGED <<rnVars, calls>>
  /\ UNCHANGED <<rnFrame, exit_code>>

\* RenameStatus that is never set to RENAME_FAILED
RenameStatus_ignoreDo == "RENAME_SUCCESSFUL"

\* lines 139, 143: the status of the rename
RenameStatus == IF Count("WorkItem::Do") = Len(RenameItems)
                   /\ \A i \in CallsOf("WorkItem::Do") : calls[i].flag
                THEN "RENAME_SUCCESSFUL" ELSE "RENAME_FAILED"

\* RenameCleanup that deletes chrome_new_exe in place of temp_path
RenameCleanup_deletesNew ==
  /\ pc = "rn_cleanup"
  /\ \E deleted \in BOOLEAN :
       /\ Log(<<Call("Delete", NoStatus, 0, deleted, "new_chrome.exe")>>)
       /\ files' = IF deleted
                   THEN [files EXCEPT !["new_chrome.exe"] = "absent"]
                   ELSE files
  /\ Exit(RenameStatus)
  /\ UNCHANGED <<rnFrame, reg, wl>>

\* lines 145-146: delete the temp directory and return
RenameCleanup ==
  /\ pc = "rn_cleanup"
  /\ \E deleted \in BOOLEAN :
       Log(<<Call("Delete", NoStatus, 0, deleted, "rename_temp")>>)
  /\ Exit(RenameStatus)
  /\ UNCHANGED <<rnFrame, rnVars>>

(***************************************************************************)
(* The installer process.                                                  *)
(***************************************************************************)
\* InstallChrome, from its entry to its return
NextInstall ==
  \/ ICPreflight
  \/ ICCreateTemp
  \/ ICUnpack
  \/ ICProbeVersion
  \/ ICCompareVersions
  \/ ICMutate
  \/ ICPostInstall
  \/ ICUserExperiment
  \/ ICCleanup
  \/ ICTrackAndReturn

\* RenameChromeExecutables, from its entry to its return
NextRename ==
  \/ RenameBuild
  \/ WorkItemListDo
  \/ WorkItemListDone
  \/ AutoRollback
  \/ ExplicitRollback
  \/ RenameCleanup

Next ==
  \/ CheckOSSupported
  \/ AutoComInit
  \/ CheckSxS
  \/ HandleUpdateSetupExe
  \/ HandleShowEula
  \/ HandleRegisterChromeBrowser
  \/ HandleRenameChromeExe
  \/ HandleRemoveChromeRegistration
  \/ HandleInactiveUserToast
  \/ HandleSystemLevelToast
  \/ HandleNoOption
  \/ CheckAdmin
  \/ GetInstalledVersion
  \/ UninstallChrome
  \/ FinishMain
  \/ NextInstall
  \/ NextRename

\* the installer process
Spec == Init /\ [][Next]_vars

\* a call of InstallChrome
SpecInstall == InitInstall /\ [][NextInstall]_vars

\* a call of RenameChromeExecutables
SpecRename == InitRename /\ [][NextRename]_vars

(***************************************************************************)
(* The version comparison on its own: three versions are compared with     *)
(* each other the way line 279 compares the installed version with the     *)
(* payload's.                                                              *)
(***************************************************************************)
\* the variables of the installer process but its position and call log
setupVars == <<cmd, system_install, reg_version, payload_version,
               installed_version, installDir, installDir0, icVars,
               main_status, exit_code, rnVars, files0, reg0>>

\* no installer process runs
NoInstaller ==
  /\ cmd = {}
  /\ system_install = FALSE
  /\ reg_version = None
  /\ payload_version = None
  /\ installed_version = None
  /\ installDir = "present"
  /\ files = DefaultFiles
  /\ reg = DefaultReg
  /\ installDir0 = installDir
  /\ installDirAtUnpack = "unset"
  /\ temp_path = "none"
  /\ incremental_install = FALSE
  /\ unpack_ret = 0
  /\ installer_version = None
  /\ install_status = "UNKNOWN_STATUS"
  /\ ic_ret = NoStatus
  /\ main_status = "UNKNOWN_STATUS"
  /\ exit_code = "none"
  /\ calls = <<>>
  /\ files0 = files
  /\ reg0 = reg
  /\ wl = EmptyList

InitVersion ==
  /\ pc = "compare"
  /\ NoInstaller
  /\ ver_a \in Versions
  /\ ver_b \in Versions
  /\ ver_c \in Versions
  /\ ver_out = "none"
  /\ NoDecoder

\* the answers of Version::Compare and of the downgrade check of line 279
\* for the three versions; zero is a with one more component, zero
CompareVersions ==
  /\ pc = "compare"
  /\ ver_out' = [aa |-> Compare(ver_a, ver_a),
                 ab |-> Compare(ver_a, ver_b),
                 ba |-> Compare(ver_b, ver_a),
                 bc |-> Compare(ver_b, ver_c),
                 ac |-> Compare(ver_a, ver_c),
                 zero |-> Compare(ver_a, Append(ver_a, 0)),
                 higher |-> HigherVersionExists(ver_a, ver_b)]
  /\ pc' = "compared"
  /\ UNCHANGED <<setupVars, calls, ver_a, ver_b, ver_c, decoderVars>>

NextVersion ==
  \/ CompareVersions

\* comparisons of versions
SpecVersion == InitVersion /\ [][NextVersion]_vars

(***************************************************************************)
(* FFmpegVideoDecoder under the fixture of its unit tests: the test body   *)
(* calls the decoder and runs the message loop, the demuxer is a mock      *)
(* that answers a read with a buffer or keeps the callback for the test.   *)
(***************************************************************************)
\* the buffers of the fixture (lines 58-64, 274) and the NULL buffer of an
\* aborted read (line 517)
Buffers == {"i_frame", "corrupt", "encrypted", "zero_byte", "end_of_stream",
            "NULL"}

\* what the mock does on one Read: ReturnBuffer(buffer) or SaveArg
DemuxerActions == Buffers \cup {"SaveArg"}

\* the buffers the tests repeat (lines 137, 314, 399)
RepeatBuffers == {"i_frame", "encrypted", "end_of_stream"}

Keys == {"none", "kRawKey", "kWrongKey"}

DemuxerScripts == UNION {[1..n -> DemuxerActions] : n \in 0..MaxBuffers}

\* the test may hand an encrypted buffer to the decoder
UsesKey(once, rest) ==
  rest = "encrypted" \/ \E i \in DOMAIN once : once[i] = "encrypted"

Task(name, buffer) == [task |-> name, buffer |-> buffer]

FrameReady(status, frame) == Call("FrameReady", status, 0, FALSE, frame)

\* Buffer::GetDataSize() is zero
IsEmpty(buffer) == buffer \in {"zero_byte", "end_of_stream"}

\* a decryptor that hands the encrypted bytes on when it has no key
Decrypt_passThrough(buffer, k) ==
  IF buffer # "encrypted" THEN {buffer}
  ELSE IF k = "kRawKey" THEN {"i_frame"}
  ELSE {"corrupt"}

\* the decryptor: what may come out of it, "NULL" for a failure; with the
\* wrong key the platform decides between failure and garbage
Decrypt(buffer, k) ==
  IF buffer # "encrypted" THEN {buffer}
  ELSE IF k = "kRawKey" THEN {"i_frame"}
  ELSE IF k = "kWrongKey" THEN {"NULL", "corrupt"}
  ELSE {"NULL"}

\* the codec: a packet is taken in and, once more than delay packets are
\* inside, the oldest comes out as a frame or as an error; an empty
\* packet drains the oldest and hides its error
Decode(plain, q, delay) ==
  IF IsEmpty(plain)
  THEN IF q = <<>> THEN [out |-> "none", codec |-> q]
       ELSE [out |-> IF Head(q) = "frame" THEN "frame" ELSE "none",
             codec |-> Tail(q)]
  ELSE LET item == IF plain = "corrupt" THEN "error" ELSE "frame"
           all == Append(q, item)
       IN IF Len(all) > delay
          THEN [out |-> Head(all), codec |-> Tail(all)]
          ELSE [out |-> "none", codec |-> all]

\* DoRead that leaves a read after the end of decoding unanswered
DoReadCase_dropFinished(st) ==
  IF st \in {"kUninitialized", "kDecodeFinished"} THEN "drop" ELSE "read"

\* DoRead: a read after Stop is dropped, a read after the end of decoding
\* is answered at once, any other goes to the demuxer
DoReadCase(st) ==
  IF st = "kUninitialized" THEN "drop"
  ELSE IF st = "kDecodeFinished" THEN "finished"
  ELSE "read"

\* DoDecodeBuffer that looks at the buffer before the pending reset
BufferCase_resetLast(resetting, buffer) ==
  IF buffer = "NULL" THEN "abort"
  ELSE "decode"

\* DoDecodeBuffer: a pending reset comes first, then an aborted read
BufferCase(resetting, buffer) ==
  IF resetting THEN "reset"
  ELSE IF buffer = "NULL" THEN "abort"
  ELSE "decode"

\* FlushState that takes a buffer without data for the end of the stream
FlushState_anyEmpty(st, buffer) ==
  IF st = "kNormal" /\ IsEmpty(buffer) THEN "kFlushCodec" ELSE st

\* kNormal -> kFlushCodec at the first end of stream buffer
FlushState(st, buffer) ==
  IF st = "kNormal" /\ buffer = "end_of_stream" THEN "kFlushCodec" ELSE st

\* DoDecodeBuffer for a buffer that is decrypted to plain and decoded:
\* the state and the codec afterwards, the calls made, whether the read
\* callback was run and whether the demuxer is read again
DecodeOutcome(buffer, plain, st, q, delay) ==
  LET flush == FlushState(st, buffer)
      decrypt == IF buffer = "encrypted"
                 THEN <<Call("Decryptor::Decrypt", NoStatus, 0,
                             plain # "NULL", buffer)>>
                 ELSE <<>>
      r == Decode(plain, q, delay)
      decode == <<Call("avcodec_decode_video2", r.out, 0, FALSE, plain)>>
      stats == IF IsEmpty(buffer) THEN <<>>
               ELSE <<Call("OnStatistics", NoStatus, 0, FALSE, buffer)>>
  IN IF plain = "NULL"
     THEN [state |-> "kDecodeFinished", codec |-> q, answered |-> TRUE,
           again |-> FALSE,
           log |-> decrypt \o <<FrameReady("kDecryptError", "NULL")>>]
     ELSE IF r.out = "error"
     THEN [state |-> "kDecodeFinished", codec |-> r.codec,
           answered |-> TRUE, again |-> FALSE,
           log |-> decrypt \o decode
                   \o <<FrameReady("kDecodeError", "NULL")>>]
     ELSE IF r.out = "frame"
     THEN [state |-> flush, codec |-> r.codec, answered |-> TRUE,
           again |-> FALSE,
           log |-> decrypt \o decode \o stats
                   \o <<FrameReady("kOk", "frame")>>]
     ELSE IF flush = "kFlushCodec"
     THEN [state |-> "kDecodeFinished", codec |-> r.codec,
           answered |-> TRUE, again |-> FALSE,
           log |-> decrypt \o decode \o stats
                   \o <<FrameReady("kOk", "end_of_stream")>>]
     ELSE [state |-> flush, codec |-> r.codec, answered |-> FALSE,
           again |-> TRUE, log |-> decrypt \o decode \o stats]

\* a test starts: the mock's script, the decryptor's key and the codec's
\* threading are the test's; a test without encrypted buffers adds no key
InitDecoder ==
  /\ pc = "test_initialize"
  /\ NoInstaller
  /\ NoVersionProbe
  /\ state_ = "kUninitialized"
  /\ read_cb_ = FALSE
  /\ reset_cb_ = FALSE
  /\ codec = <<>>
  /\ codec_delay \in {0, 1}
  /\ demuxer_once \in DemuxerScripts
  /\ demuxer_rest \in RepeatBuffers
  /\ key \in (IF UsesKey(demuxer_once, demuxer_rest) THEN Keys
               ELSE {"none"})
  /\ saved_cb = FALSE
  /\ message_loop_ = <<>>

decoderFrame == <<setupVars, verVars, codec_delay, key, demuxer_rest>>

\* the mock's action on the next DemuxerStream::Read
DemuxerAction ==
  IF demuxer_once # <<>> THEN Head(demuxer_once) ELSE demuxer_rest

\* ReadFromDemuxerStream: the mock runs the callback with its buffer,
\* which posts DoDecodeBuffer, or keeps the callback; queue is the message
\* loop without the running task, log the calls the task made before
ReadFromDemuxerStream(queue, log) ==
  /\ demuxer_once' = IF demuxer_once # <<>> THEN Tail(demuxer_once)
                     ELSE demuxer_once
  /\ saved_cb' = (DemuxerAction = "SaveArg")
  /\ message_loop_' = IF DemuxerAction = "SaveArg" THEN queue
                      ELSE Append(queue, Task("DoDecodeBuffer",
                                              DemuxerAction))
  /\ Log(log \o <<Call("DemuxerStream::Read", NoStatus, 0,
                       DemuxerAction = "SaveArg", DemuxerAction)>>)

\* lines 75-93: Initialize() with a configuration the codec opens or not
FixtureInitialize ==
  /\ pc = "test_initialize"
  /\ \E opened \in BOOLEAN :
       /\ state_' = IF opened THEN "kNormal" ELSE "kUninitialized"
       /\ Log(<<Call("Initialize",
                     IF opened THEN "PIPELINE_OK"
                     ELSE "PIPELINE_ERROR_DECODE", 0, opened, "status_cb")>>)
  /\ pc' = "test_body"
  /\ UNCHANGED <<decoderFrame, read_cb_, reset_cb_, codec, demuxer_once,
                 saved_cb, message_loop_>>

\* lines 189, 474, 536: decoder_->Read(read_cb_) posts DoRead; the tests
\* read an initialized decoder that has no read pending
FixtureRead ==
  /\ pc = "test_body"
  /\ message_loop_ = <<>>
  /\ state_ # "kUninitialized"
  /\ ~read_cb_
  /\ Count("VideoDecoder::Read") < MaxReads
  /\ message_loop_' = <<Task("DoRead", "NULL")>>
  /\ Log(<<Call("VideoDecoder::Read", NoStatus, 0, FALSE, "read_cb_")>>)
  /\ UNCHANGED <<pc, decoderFrame, state_, read_cb_, reset_cb_, codec,
                 demuxer_once, saved_cb>>

\* the message loop runs DoRead
DoRead ==
  /\ pc = "test_body"
  /\ message_loop_ # <<>>
  /\ Head(message_loop_).task = "DoRead"
  /\ CASE DoReadCase(state_) = "drop" ->
            /\ message_loop_' = Tail(message_loop_)
            /\ UNCHANGED <<read_cb_, demuxer_once, saved_cb, calls>>
       [] DoReadCase(state_) = "finished" ->
            /\ message_loop_' = Tail(message_loop_)
            /\ Log(<<FrameReady("kOk", "end_of_stream")>>)
            /\ UNCHANGED <<read_cb_, demuxer_once, saved_cb>>
       [] DoReadCase(state_) = "read" ->
            /\ read_cb_' = TRUE
            /\ ReadFromDemuxerStream(Tail(message_loop_), <<>>)
  /\ UNCHANGED <<pc, decoderFrame, state_, reset_cb_, codec>>

\* the message loop runs DoDecodeBuffer with the demuxer's buffer
DoDecodeBuffer ==
  /\ pc = "test_body"
  /\ message_loop_ # <<>>
  /\ Head(message_loop_).task = "DoDecodeBuffer"
  /\ LET buffer == Head(message_loop_).buffer
         queue == Tail(message_loop_)
     IN CASE BufferCase(reset_cb_, buffer) = "reset" ->
               /\ read_cb_' = FALSE
               /\ reset_cb_' = FALSE
               /\ codec' = <<>>
               /\ state_' = "kNormal"
               /\ message_loop_' = queue
               /\ Log(<<FrameReady("kOk", "NULL"),
                        Call("reset closure", NoStatus, 0, FALSE, "")>>)
               /\ UNCHANGED <<demuxer_once, saved_cb>>
          [] BufferCase(reset_cb_, buffer) = "abort" ->
               /\ read_cb_' = FALSE
               /\ message_loop_' = queue
               /\ Log(<<FrameReady("kOk", "NULL")>>)
               /\ UNCHANGED <<reset_cb_, codec, state_, demuxer_once,
                              saved_cb>>
          [] BufferCase(reset_cb_, buffer) = "decode" ->
               \E plain \in Decrypt(buffer, key) :
                 LET o == DecodeOutcome(buffer, plain, state_, codec,
                                        codec_delay)
                 IN /\ state_' = o.state
                    /\ codec' = o.codec
                    /\ read_cb_' = ~o.answered
                    /\ IF o.again
                       THEN ReadFromDemuxerStream(queue, o.log)
                       ELSE /\ message_loop_' = queue
                            /\ Log(o.log)
                            /\ UNCHANGED <<demuxer_once, saved_cb>>
                    /\ UNCHANGED reset_cb_
  /\ UNCHANGED <<pc, decoderFrame>>

\* lines 95-98, 543: Reset(); it is deferred while a read is pending
FixtureReset ==
  /\ pc = "test_body"
  /\ message_loop_ = <<>>
  /\ state_ # "kUninitialized"
  /\ ~reset_cb_
  /\ Count("VideoDecoder::Reset") < MaxResets
  /\ IF read_cb_
     THEN /\ reset_cb_' = TRUE
          /\ Log(<<Call("VideoDecoder::Reset", NoStatus, 0, TRUE, "")>>)
          /\ UNCHANGED <<state_, codec>>
     ELSE /\ reset_cb_' = FALSE
          /\ codec' = <<>>
          /\ state_' = "kNormal"
          /\ Log(<<Call("VideoDecoder::Reset", NoStatus, 0, FALSE, ""),
                   Call("reset closure", NoStatus, 0, FALSE, "")>>)
  /\ UNCHANGED <<pc, decoderFrame, read_cb_, demuxer_once, saved_cb,
                 message_loop_>>

\* lines 487, 547: the test runs the demuxer's callback it kept
FixtureRunReadCB ==
  /\ pc = "test_body"
  /\ message_loop_ = <<>>
  /\ saved_cb
  /\ \E buffer \in Buffers :
       /\ message_loop_' = <<Task("DoDecodeBuffer", buffer)>>
       /\ Log(<<Call("read_cb.Run", NoStatus, 0, FALSE, buffer)>>)
  /\ saved_cb' = FALSE
  /\ UNCHANGED <<pc, decoderFrame, state_, read_cb_, reset_cb_, codec,
                 demuxer_once>>

\* lines 100-103: Stop(); the tests stop a decoder that has no read pending
FixtureStop ==
  /\ pc = "test_body"
  /\ message_loop_ = <<>>
  /\ state_ # "kUninitialized"
  /\ ~read_cb_
  /\ state_' = "kUninitialized"
  /\ Log(<<Call("VideoDecoder::Stop", NoStatus, 0, FALSE, ""),
           Call("stop closure", NoStatus, 0, FALSE, "")>>)
  /\ UNCHANGED <<pc, decoderFrame, read_cb_, reset_cb_, codec, demuxer_once,
                 saved_cb, message_loop_>>

NextDecoder ==
  \/ FixtureInitialize
  \/ FixtureRead
  \/ DoRead
  \/ DoDecodeBuffer
  \/ FixtureReset
  \/ FixtureRunReadCB
  \/ FixtureStop

\* a test of the video decoder
SpecDecoder == InitDecoder /\ [][NextDecoder]_vars

TypeOK ==
  /\ cmd \in CommandLines
  /\ system_install \in BOOLEAN
  /\ installed_version \in {reg_version, None}
  /\ installer_version \in {payload_version, None}
  /\ \A i \in DOMAIN calls : calls[i].flag \in BOOLEAN

(***************************************************************************)
(* Properties of the installer.                                            *)
(***************************************************************************)
ICReturned == ic_ret # NoStatus

ICSteps == {"ic_preflight", "ic_tempdir", "ic_unpack", "ic_probe",
            "ic_compare", "ic_mutate", "ic_post", "ic_experiment",
            "ic_cleanup", "ic_track"}

\* the steps of InstallChrome that follow its WriteInstallerResult
ICAfterWrite == {"ic_post", "ic_experiment", "ic_cleanup", "ic_track"}

LastWrite == Writes[Len(Writes)]

HasCall(op, arg) == \E i \in DOMAIN calls : calls[i].op = op /\ calls[i].arg = arg

FailedCall(op, arg) ==
  \E i \in DOMAIN calls :
    calls[i].op = op /\ calls[i].arg = arg /\ calls[i].code # 0

\* C1: every run of InstallChrome has called WriteInstallerResult exactly
\* once when it returns, whatever path it took, and never more than once
\* while it runs.
C1_ExactlyOneWrite ==
  /\ ICReturned => Count("WriteInstallerResult") = 1
  /\ pc \in ICSteps => Count("WriteInstallerResult") <= 1

C1_Witness ==
  /\ ICReturned
  /\ ic_ret = "HIGHER_VERSION_EXISTS"
  /\ Count("WriteInstallerResult") = 1

NoWriteExit ==
  \/ exit_code \in {"SXS_OPTION_NOT_SUPPORTED", "RENAME_SUCCESSFUL",
                    "RENAME_FAILED"}
  \/ \E i \in DOMAIN calls :
       \/ calls[i].op \in {"ExecuteExeAsAdmin",
                           "installer_setup::UninstallChrome",
                           "ShowEULADialog", "RegisterChromeBrowser",
                           "DeleteChromeRegistrationKeys",
                           "InactiveUserToastExperiment"}
       \/ /\ calls[i].op = "LaunchUserExperiment"
          /\ calls[i].status = "REENTRY_SYS_UPDATE"
  \/ HasCall("CreateNewTempDirectory", "setup_temp") /\ exit_code = "0"

C3_ReturnedIsWritten ==
  /\ ICReturned => Len(Writes) >= 1 /\ ic_ret = LastWrite.status
  /\ pc \in ICAfterWrite =>
       Len(Writes) >= 1 /\ install_status = LastWrite.status

C3_Witness ==
  /\ ICReturned
  /\ ic_ret = "FIRST_INSTALL_SUCCESS"
  /\ Count("LaunchChrome") = 1
  /\ \E i \in CallsOf("Delete") : ~calls[i].flag
  /\ Count("ScheduleDirectoryForDeletion") >= 1

\* the installed version is strictly higher than the candidate found in
\* the unpacked payload
Downgrade ==
  /\ installed_version # None
  /\ installer_version # None
  /\ IsHigherThan(installed_version, installer_version)

\* C4: when the installed version is strictly higher than the candidate,
\* InstallOrUpdateChrome is never invoked, the install directory is what
\* it was at the start, and the run ends with HIGHER_VERSION_EXISTS.
C4_NoDowngrade ==
  Downgrade =>
    /\ Count("InstallOrUpdateChrome") = 0
    /\ installDir = installDir0
    /\ ICReturned => ic_ret = "HIGHER_VERSION_EXISTS"
                     /\ LastWrite.status = "HIGHER_VERSION_EXISTS"

C4_Witness ==
  /\ Downgrade
  /\ ICReturned
  /\ installDir0 = "present"

\* a sub-step of UnPackArchive did not succeed
UnpackSubStepFailed ==
  \/ FailedCall("LzmaUtil::UnPackArchive", "archive")
  \/ incremental_install /\ installed_version = None
  \/ FailedCall("ApplyDiffPatch", "installed/chrome.7z")
  \/ FailedCall("LzmaUtil::UnPackArchive", "chrome.7z")

\* C5: when any sub-step of UnPackArchive fails, InstallChrome writes and
\* returns UNCOMPRESSION_FAILED and neither the version probe nor
\* InstallOrUpdateChrome runs.
C5_UnpackFailure ==
  UnpackSubStepFailed =>
    /\ Count("GetVersionFromDir") = 0
    /\ Count("InstallOrUpdateChrome") = 0
    /\ Len(Writes) = 1
    /\ LastWrite.status = "UNCOMPRESSION_FAILED"
    /\ install_status = "UNCOMPRESSION_FAILED"
    /\ ICReturned => ic_ret = "UNCOMPRESSION_FAILED"

C5_Witness ==
  /\ ICReturned
  /\ FailedCall("ApplyDiffPatch", "installed/chrome.7z")
  /\ ic_ret = "UNCOMPRESSION_FAILED"

\* the payload was differential and no installed version is known
DifferentialWithoutInstall ==
  incremental_install /\ installed_version = None

\* C6 (as claimed): a differential payload with no installed version makes
\* CHROME_NOT_INSTALLED the result of the run.
C6_Original ==
  DifferentialWithoutInstall /\ ICReturned =>
    ic_ret = "CHROME_NOT_INSTALLED"

\* C6 (amended): a differential payload with no installed version makes
\* UnPackArchive return CHROME_NOT_INSTALLED without applying a patch, and
\* the result of the run is UNCOMPRESSION_FAILED, never a success status.
C6_DifferentialNeedsInstall ==
  DifferentialWithoutInstall =>
    /\ unpack_ret = CHROME_NOT_INSTALLED_CODE
    /\ Count("ApplyDiffPatch") = 0
    /\ Count("InstallOrUpdateChrome") = 0
    /\ LastWrite.status = "UNCOMPRESSION_FAILED"
    /\ ICReturned => ic_ret = "UNCOMPRESSION_FAILED"

C6_Witness ==
  /\ DifferentialWithoutInstall
  /\ ICReturned
  /\ unpack_ret = CHROME_NOT_INSTALLED_CODE

\* C7 (as claimed): a run that ends with UNCOMPRESSION_FAILED leaves the
\* install directory exactly as it was when the run started.
C7_Original ==
  ic_ret = "UNCOMPRESSION_FAILED" => installDir = installDir0

\* C7 (amended): a run that ends with UNCOMPRESSION_FAILED leaves the
\* install directory as it was when the Unpack step started; that is the
\* directory of the start of the run, except on a first install where
\* preflight deleted a directory that occupied the install path.
C7_UnpackLeavesInstallDir ==
  ic_ret = "UNCOMPRESSION_FAILED" =>
    /\ installDir = installDirAtUnpack
    /\ installed_version # None => installDir = installDir0
    /\ installDir # installDir0 =>
         installed_version = None /\ installDir0 # "absent"
                                  /\ installDir = "absent"

C7_Witness ==
  /\ ic_ret = "UNCOMPRESSION_FAILED"
  /\ installed_version = None
  /\ installDir0 = "present"
  /\ installDir = "absent"

\* the probe of the unpacked payload found no version
ProbeFoundNothing ==
  \E i \in CallsOf("GetVersionFromDir") : ~calls[i].flag

\* C8: when unpacking succeeded and the payload has no parseable version,
\* InstallChrome writes INVALID_ARCHIVE, returns it if it returns, and
\* never invokes InstallOrUpdateChrome.
C8_InvalidArchive ==
  ProbeFoundNothing =>
    /\ unpack_ret = 0
    /\ Count("InstallOrUpdateChrome") = 0
    /\ Len(Writes) = 1
    /\ LastWrite.status = "INVALID_ARCHIVE"
    /\ install_status = "INVALID_ARCHIVE"
    /\ ICReturned => ic_ret = "INVALID_ARCHIVE"

C8_Witness ==
  /\ ProbeFoundNothing
  /\ ICReturned
  /\ ic_ret = "INVALID_ARCHIVE"

\* the installed version equals the candidate found in the payload
SameVersion ==
  /\ installed_version # None
  /\ installer_version # None
  /\ Compare(installed_version, installer_version) = "equal"

\* C9: when the installed version equals the candidate, the run does not
\* report HIGHER_VERSION_EXISTS: it invokes InstallOrUpdateChrome, and its
\* status is neither HIGHER_VERSION_EXISTS nor NEW_VERSION_UPDATED.
C9_SameVersionRepairs ==
  SameVersion =>
    /\ install_status \notin {"HIGHER_VERSION_EXISTS", "NEW_VERSION_UPDATED"}
    /\ pc \in ICAfterWrite \/ ICReturned =>
         Count("InstallOrUpdateChrome") = 1
    /\ ICReturned =>
         ic_ret \notin {"HIGHER_VERSION_EXISTS", "NEW_VERSION_UPDATED"}

C9_Witness ==
  /\ SameVersion
  /\ ICReturned
  /\ ic_ret = "INSTALL_REPAIRED"
  /\ Len(installed_version) # Len(installer_version)

AddedItems == SelectSeq(calls, LAMBDA c : c.op = "AddWorkItem")

DoCalls == SelectSeq(calls, LAMBDA c : c.op = "WorkItem::Do")

\* C10: the work list executes its items in the order they were added,
\* nothing is executed after an item that failed, and adding items changes
\* neither files nor registry before the execution starts.
C10_InOrderStopAtFailure ==
  /\ Len(DoCalls) <= Len(AddedItems)
  /\ \A i \in 1..Len(DoCalls) :
       /\ DoCalls[i].code = AddedItems[i].code
       /\ DoCalls[i].arg = AddedItems[i].arg
       /\ i < Len(DoCalls) => DoCalls[i].flag
  /\ Len(DoCalls) = 0 => files = files0 /\ reg = reg0

C10_Witness ==
  /\ pc = "exited"
  /\ Len(AddedItems) = 5
  /\ Len(DoCalls) = 3
  /\ ~DoCalls[3].flag
  /\ files0["chrome_old.exe"] = "old"

RollbackCalls == SelectSeq(calls, LAMBDA c : c.op = "WorkItem::Rollback")

\* the executions that succeeded, in their order
Succeeded == SelectSeq(DoCalls, LAMBDA c : c.flag)

\* the execution of the list ended at an item that failed
DoFailed == Len(DoCalls) > 0 /\ ~DoCalls[Len(DoCalls)].flag

\* WorkItemList::Do has returned to RenameChromeExecutables
DoReturned == pc \in {"rn_rollback", "rn_cleanup", "exited"}

\* the rename is over: only the temp directory is left to delete
RenameOver == pc \in {"rn_cleanup", "exited"}

\* C11: when a work item fails, the items that had succeeded are reverted
\* in the reverse of the order of their execution, all of them before the
\* execution returns its failure to the caller, and no other item is
\* reverted.
C11_RollbackInReverse ==
  /\ Len(RollbackCalls) <= Len(Succeeded)
  /\ \A i \in 1..Len(RollbackCalls) :
       RollbackCalls[i].code = Succeeded[Len(Succeeded) + 1 - i].code
  /\ Len(RollbackCalls) > 0 => DoFailed
  /\ DoFailed /\ DoReturned => Len(RollbackCalls) = Len(Succeeded)

C11_Witness ==
  /\ pc = "rn_rollback"
  /\ Len(Succeeded) = 3
  /\ Len(RollbackCalls) = 3
  /\ RollbackCalls[1].code = 3

\* C12: a rename whose k-th work item fails, with every revert of its
\* rollback succeeding, leaves chrome_old.exe, chrome.exe, new_chrome.exe
\* and both registry values as they were before the execution.
C12_FailureRestoresState ==
  /\ RenameOver
  /\ DoFailed
  /\ \A i \in 1..Len(RollbackCalls) : RollbackCalls[i].flag
  => files = files0 /\ reg = reg0

C12_Witness ==
  /\ pc = "exited"
  /\ Len(DoCalls) = 5
  /\ DoFailed
  /\ \A i \in 1..Len(RollbackCalls) : RollbackCalls[i].flag
  /\ files0 = [n \in FileNames |-> IF n = "new_chrome.exe" THEN "new"
                                   ELSE "old"]
  /\ reg0["opv"]
  /\ files = files0

\* the execution ended at the copy (step 2) after the delete of the stale
\* backup (step 1) succeeded
CopyFailed ==
  /\ Len(DoCalls) = 2
  /\ DoCalls[1].flag
  /\ ~DoCalls[2].flag

\* C13 (as claimed): when step 2 fails the status is RENAME_FAILED, the
\* stale backup that step 1 deleted stays deleted, and chrome.exe,
\* new_chrome.exe and both registry values are untouched.
C13_Original ==
  pc = "exited" /\ CopyFailed =>
    /\ exit_code = "RENAME_FAILED"
    /\ files["chrome_old.exe"] = "absent"
    /\ files["chrome.exe"] = files0["chrome.exe"]
    /\ files["new_chrome.exe"] = files0["new_chrome.exe"]
    /\ reg = reg0

\* C13 (amended): when step 2 fails the status is RENAME_FAILED, chrome.exe,
\* new_chrome.exe and both registry values are untouched, and the stale
\* backup that step 1 deleted is restored by the rollback; it stays deleted
\* only when its revert fails.
C13_CopyFailureRestoresBackup ==
  pc = "exited" /\ CopyFailed =>
    /\ exit_code = "RENAME_FAILED"
    /\ files["chrome.exe"] = files0["chrome.exe"]
    /\ files["new_chrome.exe"] = files0["new_chrome.exe"]
    /\ reg = reg0
    /\ Len(RollbackCalls) = 1
    /\ files["chrome_old.exe"] =
         IF RollbackCalls[1].flag THEN files0["chrome_old.exe"] ELSE "absent"

C13_Witness ==
  /\ pc = "exited"
  /\ CopyFailed
  /\ files0["chrome_old.exe"] = "old"
  /\ files0["new_chrome.exe"] = "new"
  /\ files["chrome_old.exe"] = "old"

\* the temp directory of the rename was created
RenameTempCreated ==
  \E i \in CallsOf("CreateNewTempDirectory") :
    calls[i].arg = "rename_temp" /\ calls[i].flag

\* C14: RenameChromeExecutables returns RENAME_SUCCESSFUL exactly when the
\* temp directory was created and all five work items succeeded, and then
\* nothing is rolled back; otherwise it returns RENAME_FAILED, and when the
\* temp directory is not created no work item is executed.
C14_RenameStatus ==
  pc = "exited" =>
    /\ exit_code \in {"RENAME_SUCCESSFUL", "RENAME_FAILED"}
    /\ exit_code = "RENAME_SUCCESSFUL" <=>
         RenameTempCreated /\ Len(Succeeded) = 5
    /\ exit_code = "RENAME_SUCCESSFUL" => Len(RollbackCalls) = 0
    /\ ~RenameTempCreated =>
         Len(DoCalls) = 0 /\ files = files0 /\ reg = reg0

C14_Witness ==
  /\ pc = "exited"
  /\ exit_code = "RENAME_FAILED"
  /\ RenameTempCreated
  /\ Len(Succeeded) = 4
  /\ Len(DoCalls) = 5

\* the kinds of the five steps of the rename
RenameKinds == <<"DeleteTree", "CopyTree", "DeleteRegValue", "DeleteTree",
                 "DeleteRegValue">>

\* C15: the rename is five work items, executed in the order delete
\* chrome_old.exe, copy new_chrome.exe over chrome.exe, delete the
\* old-version value, delete new_chrome.exe, delete the rename-command
\* value; after RENAME_SUCCESSFUL chrome.exe has the content new_chrome.exe
\* had, new_chrome.exe and chrome_old.exe are absent and both values are
\* deleted; the rename-command value is not deleted before the copy was
\* done.
C15_FiveItemsInOrder ==
  /\ RenameTempCreated => Len(AddedItems) = 5
  /\ \A i \in 1..Len(AddedItems) :
       AddedItems[i].code = i /\ AddedItems[i].arg = RenameKinds[i]
  /\ \A i \in 1..Len(DoCalls) :
       DoCalls[i].code = i /\ DoCalls[i].arg = RenameKinds[i]
  /\ reg0["cmd"] /\ ~reg["cmd"] =>
       Len(Succeeded) = 5 /\ Succeeded[2].code = 2
  /\ Len(Succeeded) >= 2 /\ Len(RollbackCalls) = 0 =>
       files["chrome.exe"] = files0["new_chrome.exe"]
  /\ pc = "exited" /\ exit_code = "RENAME_SUCCESSFUL" =>
       /\ files["chrome.exe"] = files0["new_chrome.exe"]
       /\ files["chrome.exe"] = "new"
       /\ files["new_chrome.exe"] = "absent"
       /\ files["chrome_old.exe"] = "absent"
       /\ \A n \in RegNames : ~reg[n]

C15_Witness ==
  /\ pc = "exited"
  /\ exit_code = "RENAME_SUCCESSFUL"
  /\ files0["chrome.exe"] = "old"
  /\ files0["chrome_old.exe"] = "old"
  /\ reg0["cmd"] /\ reg0["opv"]
  /\ files["chrome.exe"] = "new"

\* a revert of the rollback failed
RollbackFailed == \E i \in 1..Len(RollbackCalls) : ~RollbackCalls[i].flag

\* C16: a revert that fails raises no further error: the rollback goes on
\* with the other items that had succeeded, no item is reverted twice, and
\* the caller sees RENAME_FAILED and nothing else.
C16_RollbackFailureSwallowed ==
  /\ \A i, j \in 1..Len(RollbackCalls) :
       RollbackCalls[i].code = RollbackCalls[j].code => i = j
  /\ pc # "crashed"
  /\ RollbackFailed /\ RenameOver =>
       /\ \A k \in 1..Len(Succeeded) :
            \E i \in 1..Len(RollbackCalls) :
              RollbackCalls[i].code = Succeeded[k].code
       /\ pc = "exited" => exit_code = "RENAME_FAILED"

C16_Witness ==
  /\ pc = "exited"
  /\ Len(RollbackCalls) = 3
  /\ ~RollbackCalls[1].flag
  /\ RollbackCalls[2].flag
  /\ ~RollbackCalls[3].flag
  /\ exit_code = "RENAME_FAILED"

\* the call at position i is a revert of a file item that failed
FailedFileRevert(i) ==
  /\ calls[i].op = "WorkItem::Rollback"
  /\ ~calls[i].flag
  /\ calls[i].arg # "DeleteRegValue"

\* C17: when a revert of a file item fails, the path of that item is handed
\* to the deferred deletion as the next thing the rollback does, and the
\* revert is not tried again.
C17_FailedRevertDeferred ==
  \A i \in DOMAIN calls :
    FailedFileRevert(i) =>
      /\ i < Len(calls)
      /\ calls[i + 1].op = "ScheduleDirectoryForDeletion"
      /\ calls[i + 1].code = calls[i].code
      /\ calls[i + 1].arg = RenameItems[calls[i].code].target
      /\ \A j \in DOMAIN calls :
           calls[j].op = "WorkItem::Rollback" /\ calls[j].code = calls[i].code
           => j = i

C17_Witness ==
  /\ pc = "exited"
  /\ \E i \in DOMAIN calls :
       /\ FailedFileRevert(i)
       /\ calls[i].code = 2
       /\ calls[i + 1].arg = "chrome.exe"
  /\ files["chrome.exe"] # files0["chrome.exe"]

\* the probe of preflight found an installation at the other scope
OtherScopeInstalled ==
  \E i \in CallsOf("GetChromeVersion") : calls[i].flag

\* preflight found no installation at the other scope
NoScopeConflict ==
  \E i \in CallsOf("GetChromeVersion") : ~calls[i].flag

\* this run is a first install at user scope
FirstUserInstall == ~system_install /\ installed_version = None

\* nothing was deleted, created, unpacked or installed
NothingModified ==
  /\ installDir = installDir0
  /\ files = files0
  /\ reg = reg0
  /\ Count("Delete") = 0
  /\ Count("CreateNewTempDirectory") = 0
  /\ Count("LzmaUtil::UnPackArchive") = 0
  /\ Count("ApplyDiffPatch") = 0
  /\ Count("InstallOrUpdateChrome") = 0

\* C18 (as claimed): with an installation at the other scope, a first
\* user-scope install launches the system-level chrome.exe, reports
\* EXISTING_VERSION_LAUNCHED and modifies nothing.
C18_Original ==
  OtherScopeInstalled /\ FirstUserInstall =>
    /\ ic_ret = "EXISTING_VERSION_LAUNCHED"
    /\ Count("LaunchApp") = 1
    /\ NothingModified

\* C18 (amended): with an installation at the other scope, a first
\* user-scope install aborts in preflight with nothing modified; it
\* reports EXISTING_VERSION_LAUNCHED and launches the system-level
\* chrome.exe once, unless the path of the system-level installation is
\* empty: then it reports OS_ERROR and launches nothing.
C18_ExistingVersionLaunched ==
  OtherScopeInstalled /\ FirstUserInstall =>
    /\ ICReturned
    /\ ic_ret \in {"EXISTING_VERSION_LAUNCHED", "OS_ERROR"}
    /\ Len(Writes) = 1
    /\ LastWrite.status = ic_ret
    /\ Count("LaunchApp") = (IF ic_ret = "OS_ERROR" THEN 0 ELSE 1)
    /\ HasCall("LaunchApp", "system chrome.exe --first-run")
         <=> ic_ret = "EXISTING_VERSION_LAUNCHED"
    /\ Count("LaunchChrome") = 0
    /\ NothingModified

C18_Witness ==
  /\ OtherScopeInstalled
  /\ FirstUserInstall
  /\ ic_ret = "EXISTING_VERSION_LAUNCHED"
  /\ installDir0 = "present"
  /\ calls[Len(calls)].op = "LaunchApp"

\* C19: with an installation at the other scope, a run that is not a first
\* user-scope install reports USER_LEVEL_INSTALL_EXISTS at system scope and
\* SYSTEM_LEVEL_INSTALL_EXISTS at user scope, launches nothing and returns
\* before anything is unpacked or modified.
C19_ScopeConflict ==
  OtherScopeInstalled /\ ~FirstUserInstall =>
    /\ ICReturned
    /\ ic_ret = (IF system_install THEN "USER_LEVEL_INSTALL_EXISTS"
                 ELSE "SYSTEM_LEVEL_INSTALL_EXISTS")
    /\ Len(Writes) = 1
    /\ LastWrite.status = ic_ret
    /\ Count("LaunchApp") = 0
    /\ Count("LaunchChrome") = 0
    /\ NothingModified

C19_Witness ==
  /\ OtherScopeInstalled
  /\ ~system_install
  /\ installed_version # None
  /\ ic_ret = "SYSTEM_LEVEL_INSTALL_EXISTS"

\* preflight tried to delete the install directory and failed
InstallDirDeleteFailed ==
  \E i \in CallsOf("Delete") :
    calls[i].arg = "install_path" /\ ~calls[i].flag

\* C20: on a first install without a conflict of scopes a directory at the
\* install path is deleted in preflight; when the deletion fails the run
\* ends with INSTALL_DIR_IN_USE and nothing is unpacked or installed; a
\* first install that reaches the unpack step has no install directory;
\* and preflight never deletes the install directory of a run that found
\* an installed version.
C20_FirstInstallDirDeleted ==
  /\ NoScopeConflict /\ installed_version = None /\ installDir0 # "absent"
       => HasCall("Delete", "install_path")
  /\ InstallDirDeleteFailed =>
       /\ ICReturned
       /\ ic_ret = "INSTALL_DIR_IN_USE"
       /\ LastWrite.status = "INSTALL_DIR_IN_USE"
       /\ Count("CreateNewTempDirectory") = 0
       /\ Count("LzmaUtil::UnPackArchive") = 0
       /\ Count("InstallOrUpdateChrome") = 0
  /\ installed_version = None /\ pc = "ic_unpack" => installDir = "absent"
  /\ installed_version = None => installDirAtUnpack \in {"unset", "absent"}
  /\ installed_version # None => ~HasCall("Delete", "install_path")

C20_Witness ==
  /\ installed_version = None
  /\ installDir0 = "present"
  /\ pc = "ic_unpack"
  /\ installDir = "absent"
  /\ \E i \in CallsOf("Delete") : calls[i].arg = "install_path"

\* the deletion of path a was tried in cleanup and failed
DeleteFailed(a) ==
  \E i \in CallsOf("Delete") : calls[i].arg = a /\ ~calls[i].flag

\* path a was handed to the deferred deletion after its deletion failed
ScheduledAfterFailure(a) ==
  \E i \in CallsOf("Delete"), j \in CallsOf("ScheduleDirectoryForDeletion") :
    /\ calls[i].arg = a
    /\ ~calls[i].flag
    /\ calls[j].arg = a
    /\ i < j

\* C21: when the deletion of the temp directory or of the preferences file
\* fails in the cleanup of InstallChrome, that path is passed to
\* ScheduleDirectoryForDeletion before InstallChrome returns, the status of
\* the run stays the one that was written, and the deletion is tried once.
C21_CleanupFailureDeferred ==
  \A a \in {"temp_path", "prefs_path"} :
    DeleteFailed(a) =>
      /\ ScheduledAfterFailure(a)
      /\ Cardinality({i \in CallsOf("Delete") : calls[i].arg = a}) = 1
      /\ Len(Writes) = 1
      /\ install_status = LastWrite.status
      /\ pc = "ic_track" \/ ICReturned
      /\ ICReturned => ic_ret = LastWrite.status

C21_Witness ==
  /\ ICReturned
  /\ ic_ret = "FIRST_INSTALL_SUCCESS"
  /\ DeleteFailed("prefs_path")
  /\ ~DeleteFailed("temp_path")

\* every temp directory named a that was created had its deletion tried
\* afterwards
TempDeletionTried(a) ==
  \A i \in CallsOf("CreateNewTempDirectory") :
    calls[i].arg = a /\ calls[i].flag =>
      \E j \in CallsOf("Delete") : calls[j].arg = a /\ i < j

\* C22: when InstallChrome returns, the deletion of the temp directory it
\* created has been tried, whatever the outcome; when the process exits,
\* so has the deletion of every temp directory the run created (that of
\* InstallChrome, of RenameChromeExecutables, of --update-setup-exe).
C22_TempDirsDeleted ==
  /\ ICReturned => TempDeletionTried("temp_path")
  /\ pc = "exited" =>
       \A a \in {"temp_path", "rename_temp", "setup_temp"} :
         TempDeletionTried(a)

C22_Witness ==
  /\ pc = "exited"
  /\ ic_ret = "UNCOMPRESSION_FAILED"
  /\ \E i \in CallsOf("CreateNewTempDirectory") :
       calls[i].arg = "temp_path" /\ calls[i].flag
  /\ TempDeletionTried("temp_path")

\* the run of InstallChrome reached the unpack step
ReachedUnpack == Count("LzmaUtil::UnPackArchive") >= 1

\* the run of InstallChrome is over: it returned or the process died
ICOver == ICReturned \/ pc = "crashed"

\* C23: every run of InstallChrome that reached the unpack step has called
\* UpdateDiffInstallStatus exactly once when it is over, whatever its
\* outcome.
C23_TrackedOnce ==
  ICOver /\ ReachedUnpack => Count("UpdateDiffInstallStatus") = 1

\* the step of InstallChrome that follows the write of the mutation's
\* result (lines 325-337) is done
PostInstallDone ==
  /\ Count("InstallOrUpdateChrome") = 1
  /\ pc \in {"ic_experiment", "ic_cleanup", "ic_track"} \/ ICReturned

UpdateStatuses == {"NEW_VERSION_UPDATED", "IN_USE_UPDATED"}

\* C24: RemoveLegacyRegistryKeys is called at most once, after the write,
\* and exactly in the runs whose written status is NEW_VERSION_UPDATED or
\* IN_USE_UPDATED; never on a first install, a repair or a failure.
C24_LegacyKeysOnUpdate ==
  /\ Count("RemoveLegacyRegistryKeys") <= 1
  /\ Count("RemoveLegacyRegistryKeys") = 1 =>
       /\ Len(Writes) = 1
       /\ LastWrite.status \in UpdateStatuses
       /\ installed_version # None
  /\ PostInstallDone /\ LastWrite.status \in UpdateStatuses =>
       Count("RemoveLegacyRegistryKeys") = 1
  /\ ICReturned /\ ic_ret \notin UpdateStatuses =>
       Count("RemoveLegacyRegistryKeys") = 0

C24_Witness ==
  /\ ICReturned
  /\ ic_ret = "IN_USE_UPDATED"
  /\ Count("RemoveLegacyRegistryKeys") = 1

\* the do-not-launch preference was read and is set
LaunchSuppressed ==
  \E i \in CallsOf("GetDistroBooleanPreference") :
    calls[i].arg = "do_not_launch_chrome" /\ calls[i].flag

\* C25: InstallChrome calls LaunchChrome at most once, and exactly in the
\* user-level runs whose written status is FIRST_INSTALL_SUCCESS and whose
\* do-not-launch preference is not set; never on an update, a repair or a
\* failure, never at system level, and never in a run that removes the
\* legacy keys.
C25_LaunchOnFirstInstall ==
  /\ Count("LaunchChrome") <= 1
  /\ Count("LaunchChrome") = 1 =>
       /\ Len(Writes) = 1
       /\ LastWrite.status = "FIRST_INSTALL_SUCCESS"
       /\ ~system_install
       /\ ~LaunchSuppressed
       /\ Count("RemoveLegacyRegistryKeys") = 0
  /\ PostInstallDone /\ LastWrite.status = "FIRST_INSTALL_SUCCESS"
       /\ ~system_install /\ ~LaunchSuppressed =>
       Count("LaunchChrome") = 1
  /\ ICReturned /\ ic_ret # "FIRST_INSTALL_SUCCESS" =>
       Count("LaunchChrome") = 0

C25_Witness ==
  /\ ICReturned
  /\ ic_ret = "FIRST_INSTALL_SUCCESS"
  /\ Count("LaunchChrome") = 1
  /\ ~system_install

\* the do-not-register-for-update-launch preference is set
RegisterSuppressed ==
  \E i \in CallsOf("GetDistroBooleanPreference") :
    calls[i].arg = "do_not_register_for_update_launch" /\ calls[i].flag

\* the statuses of a mutation that failed
FailureStatuses == {"INSTALL_FAILED", "SAME_VERSION_REPAIR_FAILED", "OS_ERROR"}

\* the mutation ran and its result was written
MutateWritten == Count("InstallOrUpdateChrome") = 1 /\ Len(Writes) = 1

\* C26 (as claimed): the result written after the mutation carries the
\* path of chrome.exe, except that no launch command (a NULL pointer) is
\* passed when the status is a failure or IN_USE_UPDATED or the
\* registration of the launch is suppressed.
C26_Original ==
  MutateWritten =>
    LastWrite.launch =
      IF \/ LastWrite.status \in FailureStatuses \cup {"IN_USE_UPDATED"}
         \/ RegisterSuppressed
      THEN "NULL" ELSE "chrome.exe"

\* C26 (amended): the result written after the mutation carries the path
\* of chrome.exe exactly when the status is neither a failure nor
\* IN_USE_UPDATED and the registration of the launch is not suppressed; a
\* NULL pointer is passed exactly for IN_USE_UPDATED or a suppressed
\* registration; for a failure that is not suppressed a pointer to an
\* empty string is passed.
C26_LaunchString ==
  MutateWritten =>
    LastWrite.launch =
      IF RegisterSuppressed \/ LastWrite.status = "IN_USE_UPDATED"
      THEN "NULL"
      ELSE IF LastWrite.status \in FailureStatuses THEN ""
      ELSE "chrome.exe"

C26_Witness ==
  /\ MutateWritten
  /\ ICReturned
  /\ ic_ret = "INSTALL_FAILED"
  /\ ~RegisterSuppressed
  /\ LastWrite.launch = ""

(***************************************************************************)
(* Properties of the version comparison.                                   *)
(***************************************************************************)
\* the first component, zero-padded, at which a and b differ is larger in a
LexGreater(a, b) ==
  \E i \in 1..MaxOf(Len(a), Len(b)) :
    /\ Component(a, i) > Component(b, i)
    /\ \A j \in 1..(i - 1) : Component(a, j) = Component(b, j)

\* C27: for all versions a, b, c: compare(a, a) is equal; compare(a, b) is
\* greater exactly when compare(b, a) is less; greater is transitive; the
\* comparison is lexicographic with the shorter tuple zero-padded on the
\* right; and the downgrade check installed.IsHigherThan(candidate) is
\* the strict comparison.
C27_CompareIsStrictOrder ==
  pc = "compared" =>
    /\ ver_out.aa = "equal"
    /\ ver_out.ab = "greater" <=> ver_out.ba = "less"
    /\ ver_out.ab = "equal" <=> ver_out.ba = "equal"
    /\ ver_out.ab = "greater" /\ ver_out.bc = "greater"
         => ver_out.ac = "greater"
    /\ ver_out.zero = "equal"
    /\ ver_out.ab = "greater" <=> LexGreater(ver_a, ver_b)
    /\ ver_out.ab = "less" <=> LexGreater(ver_b, ver_a)
    /\ ver_out.higher <=> ver_out.ab = "greater"

C27_Witness ==
  /\ pc = "compared"
  /\ Len(ver_a) > Len(ver_b)
  /\ ver_a[1] = ver_b[1]
  /\ ver_out.ab = "greater"
  /\ ver_out.ba = "less"
  /\ ver_out.bc = "greater"
  /\ ver_out.ac = "greater"
  /\ ver_out.zero = "equal"
  /\ ver_out.higher

(***************************************************************************)
(* Properties of the video decoder under its tests.                        *)
(***************************************************************************)
\* how many of the first n calls are calls of op
CountUpTo(op, n) == Cardinality({i \in 1..n : calls[i].op = op})

\* a decoder read has not been answered yet
ReadOutstanding == message_loop_ # <<>> \/ saved_cb

\* C28: every Read() of the decoder is answered by exactly one run of its
\* read callback: at any moment the callback has run once for each read
\* but possibly the last, and once for every read when nothing is left
\* on the message loop and the demuxer holds no callback.
C28_OneAnswerPerRead ==
  /\ \A n \in 0..Len(calls) :
       CountUpTo("VideoDecoder::Read", n) - CountUpTo("FrameReady", n)
         \in {0, 1}
  /\ Count("VideoDecoder::Read") - Count("FrameReady")
       = IF ReadOutstanding THEN 1 ELSE 0

C28_Witness ==
  /\ ~ReadOutstanding
  /\ Count("FrameReady") = 2
  /\ \E i \in DOMAIN calls : calls[i].op = "VideoDecoder::Reset" /\ calls[i].flag
  /\ \E i \in DOMAIN calls : calls[i] = FrameReady("kDecodeError", "NULL")

\* the resets that found a read pending
DeferredResets ==
  {i \in DOMAIN calls : calls[i].op = "VideoDecoder::Reset" /\ calls[i].flag}

\* C29: a Reset() while the demuxer read is outstanding does not answer
\* the pending decoder read until the demuxer's callback is run; then the
\* read is answered with kOk and a NULL frame and the reset completes,
\* and the buffer the demuxer delivered is not decoded.
C29_ResetDuringPendingRead ==
  \A i \in DeferredResets :
    /\ calls[i - 1].op = "DemuxerStream::Read"
    /\ calls[i - 1].arg = "SaveArg"
    /\ Len(calls) = i => read_cb_ /\ reset_cb_ /\ saved_cb
    /\ Len(calls) > i => calls[i + 1].op = "read_cb.Run"
    /\ Len(calls) = i + 1 => read_cb_ /\ reset_cb_
    /\ Len(calls) > i + 1 =>
         /\ calls[i + 2] = FrameReady("kOk", "NULL")
         /\ calls[i + 3].op = "reset closure"
    /\ Len(calls) = i + 3 => ~read_cb_ /\ ~reset_cb_ /\ codec = <<>>

C29_Witness ==
  \E i \in DeferredResets :
    /\ Len(calls) = i + 3
    /\ calls[i + 1].arg = "i_frame"
    /\ calls[i + 2] = FrameReady("kOk", "NULL")

\* the demuxer's callback was run with buffer at call i
Delivered(i, buffer) ==
  /\ calls[i].op \in {"DemuxerStream::Read", "read_cb.Run"}
  /\ calls[i].arg = buffer

Phase(c) ==
  IF c.op \in {"GetChromeVersion", "LaunchApp"}
       \/ (c.op = "Delete" /\ c.arg = "install_path") THEN 1
  ELSE IF c.op \in {"CreateNewTempDirectory", "LzmaUtil::UnPackArchive",
                    "PathExists", "ApplyDiffPatch"} THEN 2
  ELSE IF c.op = "GetVersionFromDir" THEN 3
  ELSE IF c.op \in {"InstallOrUpdateChrome", "LaunchChrome",
                    "RemoveLegacyRegistryKeys", "LaunchUserExperiment"} THEN 4
  ELSE IF c.op \in {"ScheduleDirectoryForDeletion",
                    "UpdateDiffInstallStatus"}
            \/ (c.op = "Delete" /\ c.arg \in {"temp_path", "prefs_path"})
       THEN 5
  ELSE 0

\* the phases of the calls that belong to one, in the order of the calls
Phases ==
  SelectSeq([i \in DOMAIN calls |-> Phase(calls[i])], LAMBDA p : p # 0)

\* call i is preceded by a call of op that answered flag
Preceded(i, op, flag) ==
  \E j \in 1..(i - 1) : calls[j].op = op /\ calls[j].flag = flag

\* C31: InstallChrome runs its phases in the order preflight, unpack,
\* version comparison, mutation, cleanup and enters none of them again:
\* InstallOrUpdateChrome is called at most once in a run, and only after
\* the preflight passed (nothing was written), the temporary directory was
\* created, UnPackArchive returned success, a candidate version was found
\* and the installed version, if any, is not higher than it.
C31_LinearPhases ==
  /\ Count("InstallOrUpdateChrome") <= 1
  /\ Count("CreateNewTempDirectory") <= 1
  /\ Count("GetVersionFromDir") <= 1
  /\ Count("UpdateDiffInstallStatus") <= 1
  /\ \A i \in CallsOf("InstallOrUpdateChrome") :
       /\ \A j \in 1..(i - 1) : calls[j].op # "WriteInstallerResult"
       /\ Preceded(i, "CreateNewTempDirectory", TRUE)
       /\ Preceded(i, "LzmaUtil::UnPackArchive", FALSE)
       /\ unpack_ret = 0
       /\ Preceded(i, "GetVersionFromDir", TRUE)
       /\ installer_version # None
       /\ ~HigherVersionExists(installed_version, installer_version)
  /\ LET ps == Phases
     IN  \A i \in 1..(Len(ps) - 1) : ps[i] <= ps[i + 1]

C31_Witness ==
  /\ ICReturned
  /\ ic_ret = "INSTALL_FAILED"
  /\ Count("InstallOrUpdateChrome") = 1
  /\ Count("ApplyDiffPatch") = 1
  /\ installed_version # None
  /\ Compare(installed_version, installer_version) = "less"
  /\ Count("UpdateDiffInstallStatus") = 1

(***************************************************************************)
(* The differential path of UnPackArchive.                                 *)
(***************************************************************************)
\* the calls of ApplyDiffPatch that UnPackArchive (line 89) makes
DiffPatchCalls ==
  {i \in CallsOf("ApplyDiffPatch") : calls[i].arg = "installed/chrome.7z"}

\* the final unpack of line 97 was called
FinalUnpacked == HasCall("LzmaUtil::UnPackArchive", "chrome.7z")

\* C32: UnPackArchive calls ApplyDiffPatch only right after chrome.7z was
\* found absent from a successful first decompression and with a known
\* installed version, against the archive <install root>/<installed
\* version>/Installer/chrome.7z; a non-zero answer is returned as it is and
\* the final unpack is not attempted; when chrome.7z is in the payload the
\* patch is never called; when the first decompression fails no other
\* call is made.
C32_PatchOnlyWhenDifferential ==
  /\ \A i \in DiffPatchCalls :
       /\ i >= 3
       /\ calls[i - 2].op = "LzmaUtil::UnPackArchive"
       /\ calls[i - 2].arg = "archive" /\ calls[i - 2].code = NO_ERROR
       /\ calls[i - 1].op = "PathExists" /\ ~calls[i - 1].flag
       /\ installed_version # None
       /\ calls[i].path = <<GetChromeInstallPath(system_install),
                            GetString(installed_version), "Installer",
                            "chrome.7z">>
       /\ Cardinality(DiffPatchCalls) = 1
       /\ IF calls[i].code # 0
          THEN /\ unpack_ret = calls[i].code
               /\ ~FinalUnpacked
               /\ calls[i + 1].op = "WriteInstallerResult"
          ELSE /\ calls[i + 1].op = "LzmaUtil::UnPackArchive"
               /\ calls[i + 1].arg = "chrome.7z"
               /\ unpack_ret = calls[i + 1].code
  /\ \A i \in CallsOf("PathExists") :
       calls[i].flag => DiffPatchCalls = {} /\ FinalUnpacked
  /\ \A i \in CallsOf("LzmaUtil::UnPackArchive") :
       calls[i].arg = "archive" /\ calls[i].code # NO_ERROR
         => /\ Count("PathExists") = 0
            /\ DiffPatchCalls = {}
            /\ ~FinalUnpacked
            /\ unpack_ret = calls[i].code
            /\ calls[i + 1].op = "WriteInstallerResult"

C32_Witness ==
  /\ ICReturned
  /\ system_install
  /\ \E i \in DiffPatchCalls : calls[i].code # 0
  /\ ~FinalUnpacked
  /\ ic_ret = "UNCOMPRESSION_FAILED"

(***************************************************************************)
(* The version handed to the experiment hook.                              *)
(***************************************************************************)
\* C33: whenever InstallChrome reaches its call of LaunchUserExperiment
\* (line 347) a candidate version was found, so the version object the
\* call dereferences is never absent: not after a mutation, not after
\* HIGHER_VERSION_EXISTS and not after INVALID_ARCHIVE.
C33_VersionPresentAtHook ==
  /\ pc = "ic_experiment" => installer_version # None
  /\ \A i \in CallsOf("LaunchUserExperiment") :
       calls[i].status # "REENTRY_SYS_UPDATE" => calls[i].flag

(***************************************************************************)
(* What the cleanup of InstallChrome schedules for deletion.               *)
(***************************************************************************)
\* C34: the cleanup of InstallChrome calls ScheduleDirectoryForDeletion for
\* a path only if the deletion of that same path failed before in the
\* run, so a path that was deleted is never scheduled; and when the
\* preferences file was given, its deletion is tried whether or not that
\* of the temp directory succeeded.
C34_ScheduledOnlyIfFailed ==
  /\ \A i \in CallsOf("ScheduleDirectoryForDeletion") :
       \E j \in 1..(i - 1) :
         /\ calls[j].op = "Delete"
         /\ calls[j].arg = calls[i].arg
         /\ ~calls[j].flag
  /\ HasCall("Delete", "temp_path") /\ "installer-data" \in cmd
       => HasCall("Delete", "prefs_path")

(***************************************************************************)
(* The two rollbacks of a failed rename.                                   *)
(***************************************************************************)
\* the execution of the rename list failed and both rollbacks are over
RenameRolledBack ==
  /\ \E i \in CallsOf("WorkItem::Do") : ~calls[i].flag
  /\ pc \in {"rn_cleanup", "exited"}

InstallChromeEntered ==
  pc \in ICSteps \/ ICReturned \/ Count("GetVersionFromDir") > 0
    \/ \E i \in CallsOf("GetChromeVersion") : calls[i].arg = "other scope"

\* UninstallChrome was entered (line 707)
UninstallChromeEntered ==
  \/ pc = "uninstall"
  \/ Count("installer_setup::UninstallChrome") > 0
  \/ \E i \in CallsOf("WriteInstallerResult") :
       calls[i].status = "CHROME_NOT_INSTALLED"

\* C36: a system-level run by a user who is no administrator enters
\* neither InstallChrome nor UninstallChrome: on Vista or later and without
\* --run-as-admin it starts itself elevated with --run-as-admin appended
\* and exits with the exit code of the child, otherwise it writes
\* INSUFFICIENT_RIGHTS and exits with it; a process that was given
\* --run-as-admin never starts itself again.
C36_NonAdminNeverInstalls ==
  /\ \A i \in CallsOf("IsUserAnAdmin") :
       ~calls[i].flag =>
         /\ system_install
         /\ ~InstallChromeEntered /\ ~UninstallChromeEntered
         /\ pc = "exited"
         /\ Len(calls) = i + 2
         /\ calls[i + 1].op = "GetWinVersion"
         /\ IF calls[i + 1].flag /\ "run-as-admin" \notin cmd
            THEN /\ calls[i + 2].op = "ExecuteExeAsAdmin"
                 /\ calls[i + 2].arg = "--run-as-admin"
                 /\ exit_code = calls[i + 2].status
                 /\ Count("WriteInstallerResult") = 0
            ELSE /\ calls[i + 2].op = "WriteInstallerResult"
                 /\ calls[i + 2].status = "INSUFFICIENT_RIGHTS"
                 /\ exit_code = "INSUFFICIENT_RIGHTS"
  /\ "run-as-admin" \in cmd => Count("ExecuteExeAsAdmin") = 0
  /\ Count("ExecuteExeAsAdmin") <= 1
  /\ system_install /\ (InstallChromeEntered \/ UninstallChromeEntered)
       => \E i \in CallsOf("IsUserAnAdmin") : calls[i].flag

C36_Witness ==
  /\ pc = "exited"
  /\ "run-as-admin" \in cmd
  /\ \E i \in CallsOf("IsUserAnAdmin") : ~calls[i].flag
  /\ \E i \in CallsOf("GetWinVersion") : calls[i].flag
  /\ exit_code = "INSUFFICIENT_RIGHTS"

(***************************************************************************)
(* The dispatch of the non-install options.                                *)
(***************************************************************************)
\* the process is past HandleNonInstallCmdLineOptions (line 671)
DispatchPassed ==
  /\ pc \notin {"main_start", "main_com", "main_sxs", "main_options"}
  /\ \A i \in CallsOf("WriteInstallerResult") :
       calls[i].status \notin {"OS_NOT_SUPPORTED", "OS_ERROR"}
  /\ exit_code # "SXS_OPTION_NOT_SUPPORTED"

\* the branch of option number k was entered
Handled(k) ==
  CASE k = 1 -> HasCall("CreateNewTempDirectory", "setup_temp")
    [] k = 2 -> Count("ShowEULADialog") > 0
    [] k = 3 -> Count("RegisterChromeBrowser") > 0
    [] k = 4 -> \/ pc \in {"rn_build", "rn_do", "rn_auto_rollback",
                           "rn_rollback", "rn_cleanup"}
                \/ HasCall("CreateNewTempDirectory", "rename_temp")
    [] k = 5 -> Count("DeleteChromeRegistrationKeys") > 0
    [] k = 6 -> Count("InactiveUserToastExperiment") > 0
    [] k = 7 -> \/ pc = "crashed"
                \/ \E i \in CallsOf("LaunchUserExperiment") :
                     calls[i].status = "REENTRY_SYS_UPDATE"

\* the exit codes the branch of option number k can leave, given the log
OptionExitCodes(k) ==
  CASE k = 1 -> {"0"} \cup {calls[i].status :
                              i \in CallsOf("WriteInstallerResult")}
    [] k = 2 -> {calls[i].status : i \in CallsOf("ShowEULADialog")}
    [] k = 3 -> {IF calls[i].flag THEN "1" ELSE "0" :
                   i \in CallsOf("RegisterChromeBrowser")}
    [] k = 4 -> {"RENAME_SUCCESSFUL", "RENAME_FAILED"}
    [] k = 5 -> {calls[i].status :
                   i \in CallsOf("DeleteChromeRegistrationKeys")}
    [] k = 6 -> {"0"}
    [] k = 7 -> {"0"}

\* the first option of the priority order that is on the command line
FirstOption ==
  CHOOSE k \in DOMAIN OptionOrder :
    /\ OptionOrder[k] \in cmd
    /\ \A j \in 1..(k - 1) : OptionOrder[j] \notin cmd

\* the side-by-side check rejected the run
SxSRejected ==
  \E i \in CallsOf("IsChromeSxSProcess") : calls[i].flag /\ SxSDisallowed

\* the dispatch handles the first option present and no other, and
\* neither InstallChrome nor UninstallChrome is entered; a side-by-side
\* process with a disallowed option is rejected before any option
OptionDispatchExclusive ==
  /\ cmd \cap NonInstallSwitches # {} /\ DispatchPassed =>
       /\ \A k \in DOMAIN OptionOrder : Handled(k) <=> k = FirstOption
       /\ ~InstallChromeEntered /\ ~UninstallChromeEntered
       /\ pc = "exited" => exit_code \in OptionExitCodes(FirstOption)
  /\ SxSRejected =>
       /\ pc = "exited" /\ exit_code = "SXS_OPTION_NOT_SUPPORTED"
       /\ Len(calls) = 1
  /\ exit_code = "SXS_OPTION_NOT_SUPPORTED" => SxSRejected

\* C37: when a non-install option is on the command line exactly one is
\* handled, the first present in the order --update-setup-exe,
\* --show-eula, --register-chrome-browser, --rename-chrome-exe,
\* --remove-chrome-registration, --inactive-user-toast,
\* --system-level-toast, and the process exits with the exit code of that
\* option without entering InstallChrome or UninstallChrome; a
\* side-by-side process given a disallowed option exits with
\* SXS_OPTION_NOT_SUPPORTED before any option is handled.
C37_OneOptionHandled ==
  /\ OptionDispatchExclusive
  /\ cmd \cap NonInstallSwitches # {} /\ DispatchPassed =>
       \/ pc = "exited"
       \/ FirstOption = 4 /\ pc # "crashed"

(***************************************************************************)
(* The uninstall path.                                                     *)
(***************************************************************************)
\* UninstallChrome (line 707) has returned
UninstallChromeReturned ==
  /\ "uninstall" \in cmd
  /\ pc = "main_post" \/ (pc = "exited" /\ UninstallChromeEntered)

UninstallMutations == CallsOf("installer_setup::UninstallChrome")

\* C38: with --uninstall, when no installed version was found and
\* --force-uninstall is absent, UninstallChrome writes and returns
\* CHROME_NOT_INSTALLED and the uninstall mutation is never called;
\* otherwise the mutation is called exactly once, with --force-uninstall
\* also when no version was found; and InstallChrome is never entered in
\* a run with --uninstall.
C38_UninstallPath ==
  /\ "uninstall" \in cmd => ~InstallChromeEntered
  /\ Cardinality(UninstallMutations) <= 1
  /\ UninstallMutations # {} => "uninstall" \in cmd
  /\ pc = "main_post" /\ "uninstall" \in cmd => UninstallChromeEntered
  /\ UninstallChromeReturned =>
       IF installed_version = None /\ "force-uninstall" \notin cmd
       THEN /\ UninstallMutations = {}
            /\ Len(Writes) = 1
            /\ LastWrite.status = "CHROME_NOT_INSTALLED"
            /\ main_status = "CHROME_NOT_INSTALLED"
       ELSE /\ Cardinality(UninstallMutations) = 1
            /\ \A i \in UninstallMutations :
                 /\ main_status = calls[i].status
                 /\ calls[i].flag <=> "force-uninstall" \in cmd
            /\ Len(Writes) = 0

C38_Witness ==
  /\ pc = "exited"
  /\ cmd = {"uninstall", "force-uninstall"}
  /\ installed_version = None
  /\ Cardinality(UninstallMutations) = 1

(***************************************************************************)
(* Buffers without a frame and the end of the stream.                      *)
(***************************************************************************)
\* the call that follows the decode at call i and its statistics
AfterDecode(i) == IF calls[i + 1].op = "OnStatistics" THEN i + 2 ELSE i + 1

\* the demuxer delivered the end of the stream before call i
EndDeliveredBefore(i) ==
  \E j \in 1..(i - 1) : Delivered(j, "end_of_stream")

\* a decode that yields no frame is followed by another read of the
\* demuxer within the same decoder read, unless the stream has ended
NoFrameSkipped ==
  \A i \in CallsOf("avcodec_decode_video2") :
    calls[i].status = "none" =>
      \/ calls[AfterDecode(i)].op = "DemuxerStream::Read"
      \/ /\ calls[AfterDecode(i)] = FrameReady("kOk", "end_of_stream")
         /\ EndDeliveredBefore(i)

\* from call j on the demuxer delivers nothing but the end of the stream
\* and the decoder is not reset, up to call i
StreamEnded(j, i) ==
  /\ j < i
  /\ Delivered(j, "end_of_stream")
  /\ \A r \in 1..i : calls[r].op # "VideoDecoder::Reset"
  /\ \A r \in j..i :
       calls[r].op \in {"DemuxerStream::Read", "read_cb.Run"}
         => calls[r].arg \in {"end_of_stream", "SaveArg"}

\* the buffers the demuxer delivered that may hold a frame
DecodableDeliveries ==
  {i \in DOMAIN calls : Delivered(i, "i_frame") \/ Delivered(i, "encrypted")}

FramesDelivered ==
  {i \in DOMAIN calls : calls[i] = FrameReady("kOk", "frame")}

\* no more frames are delivered than buffers that may hold one arrived
FramesBounded ==
  Cardinality(FramesDelivered) <= Cardinality(DecodableDeliveries)

\* C39 (as claimed): a buffer that yields no frame is skipped, the read
\* pulling the demuxer until a frame or the end of the stream; once the
\* demuxer has delivered the end of the stream every read is answered
\* with kOk and an end-of-stream frame; and no more frames are delivered
\* than decodable buffers were supplied.
C39_Original ==
  /\ NoFrameSkipped
  /\ \A i \in CallsOf("FrameReady") :
       \A j \in 1..(i - 1) :
         StreamEnded(j, i) => calls[i] = FrameReady("kOk", "end_of_stream")
  /\ FramesBounded

\* C39 (amended): a buffer that yields no frame is skipped, the read
\* pulling the demuxer until a frame or the end of the stream; once the
\* demuxer has delivered the end of the stream every read is answered
\* with kOk and either a frame the codec still held, which the
\* end-of-stream buffer made it return, or, when the codec holds none,
\* an end-of-stream frame; and no more frames are delivered than
\* decodable buffers were supplied.
C39_DrainThenEndOfStream ==
  /\ NoFrameSkipped
  /\ \A i \in CallsOf("FrameReady") :
       \A j \in 1..(i - 1) :
         StreamEnded(j, i) =>
           \/ calls[i] = FrameReady("kOk", "end_of_stream")
           \/ /\ calls[i] = FrameReady("kOk", "frame")
              /\ codec_delay > 0
              /\ calls[i - 1].op = "avcodec_decode_video2"
              /\ calls[i - 1].arg = "end_of_stream"
              /\ calls[i - 1].status = "frame"
  /\ FramesBounded

C39_Witness ==
  /\ ~ReadOutstanding
  /\ Count("VideoDecoder::Read") = 2
  /\ \E i, j \in CallsOf("FrameReady") :
       /\ i < j
       /\ EndDeliveredBefore(i)
       /\ calls[i] = FrameReady("kOk", "frame")
       /\ calls[j] = FrameReady("kOk", "end_of_stream")

====
